---- MODULE Spec2Model ----
(***************************************************************************)
(* A model of MDFConnectClient (mdf_connect_client/mdfcc.py): the          *)
(* submission builder state and its setters, get_submission,               *)
(* reset_submission, submit_dataset and submit_dataset_metadata_update     *)
(* with their exchange with the Connect service, and the curation          *)
(* verdicts.  Each call is one action; `last` records the call just made   *)
(* (arguments, the state it found, what it returned or raised, the         *)
(* requests it sent in order).  Spec is the submission lifecycle;          *)
(* ListSpec, IndexSpec, ValidatingSpec and StoringSpec exercise groups of  *)
(* setters, UpdateSpec the metadata update, CurationSpec the curation      *)
(* verdicts, DcSpec authors and affiliations, UploadSpec the upload to an  *)
(* endpoint, EnvelopeSpec every setter that feeds the envelope, LinksSpec  *)
(* links and organizations, QuerySpec the status and curation queries,     *)
(* LogoutSpec logout on clients built with an authorizer or by login.      *)
(* `authorizer` and `auths` are the two private attributes __init__ sets   *)
(* (auths is NoAttribute when it was never assigned); `granted` is a       *)
(* history variable, the identifier last handed out by the service.        *)
(*                                                                         *)
(* Values.  A Python str is a TLA+ string.  Python None is the token None, *)
(* Python False stored in a str-typed slot is the token PyFalse.  The      *)
(* floats nan, inf and -inf are the tokens of NonFinite.  A dict is a      *)
(* function on string keys, a list is a sequence; {} and [] are both <<>>, *)
(* and so is the None of a list-typed slot (dataset_acl, an omitted        *)
(* submission argument): the code only ever tests those for truth.         *)
(* An argument that the code tests with isinstance(x, list) is tagged:     *)
(* S(v) a scalar, L(l) a list, D(d) a dict, NoArg an omitted (None)        *)
(* argument.                                                               *)
(***************************************************************************)
EXTENDS Integers, Sequences, FiniteSets, TLC

\* ------------------------------------------------------------------ bounds
\* Calls of setters and of reset_submission made on one client.
MaxSetterCalls == 2
\* Calls of submit_dataset made on one client.
MaxSubmits == 2
\* Curation calls made on one client; submits made on a client whose envelope
\* is being looked at.
MaxCurationCalls == 1
\* Longest data_sources list the model builds.
MaxLen == 1
\* Calls made on one client when only the builder is exercised, and the
\* longest list built there.
MaxBuilderCalls == 3
MaxListLen == 3
\* Setter calls made on one client when the whole envelope is exercised.
MaxEnvelopeCalls == 2

\* --------------------------------------------------------- program constants
CONNECT_SERVICE_LOC == "https://api.materialsdatafacility.org"
CONNECT_DEV_LOC == "https://f6avec0img.execute-api.us-east-1.amazonaws.com/test"
CONNECT_EXTRACT_ROUTE == "/submit"
CONNECT_CURATION_ROUTE == "/curate/"
CONNECT_MD_UPDATE_ROUTE == "/update/"

None == "None"
PyFalse == "False"
NonFinite == {"NaN", "Infinity", "-Infinity"}

\* Python truthiness of a str/None/False slot, and of a dict or list.
Truthy(v) == v \notin {None, PyFalse, ""}
NonEmpty(c) == DOMAIN c # {}

Range(s) == {s[i] : i \in DOMAIN s}

\* ------------------------------------------------------------------- state
VARIABLES
    test, update, service_loc,                       \* __init__
    authorizer, auths,                               \* __init__: self.__authorizer, self.__auths
    dc, mdf, mrr, projects, custom, extraction_config,
    curation, no_extract, incremental_update,
    data_sources, external_uri, data_destinations,
    index, services, tags, links, dataset_acl,
    source_id,
    nset, nsub,                                      \* calls made so far: of setters, of
                                                     \* the methods that talk to the service
    last,                                            \* the last call: arguments, outcome, requests
    granted                                          \* history: the identifier carried by the latest
                                                     \* response to submit_dataset that had a status
                                                     \* below 300 and a parseable body with a
                                                     \* source_id, since construction or the last reset

fields == <<dc, mdf, mrr, projects, custom, extraction_config, curation, no_extract,
            incremental_update, data_sources, external_uri, data_destinations,
            index, services, tags, links, dataset_acl>>
session == <<authorizer, auths>>
vars == <<test, update, service_loc, session, fields, source_id, nset, nsub, last, granted>>

\* --------------------------------------------------------------- json.dumps
\* json.dumps(x, allow_nan=False) succeeds: no leaf is a non-finite float.
LeafOk(v) == v \notin NonFinite
ListOk(l) == \A i \in DOMAIN l : LeafOk(l[i])
DictOk(d) == \A k \in DOMAIN d : LeafOk(d[k])
NestedOk(d) == \A k \in DOMAIN d : DictOk(d[k])

\* A tagged value (see the setters): a scalar, or a list of tagged values.
RECURSIVE TaggedOk(_)
TaggedOk(a) == IF a.kind = "list" THEN \A i \in DOMAIN a.val : TaggedOk(a.val[i])
               ELSE LeafOk(a.val)

\* The dc block built by create_dc_block: titles and creators are lists of
\* flat dicts, except a creator's "affiliations", a list of tagged values.
CreatorOk(c) == \A k \in DOMAIN c :
                    IF k = "affiliations" THEN \A i \in DOMAIN c[k] : TaggedOk(c[k][i])
                    ELSE LeafOk(c[k])
DcOk(d) == \A k \in DOMAIN d :
               CASE k = "titles" -> \A i \in DOMAIN d[k] : DictOk(d[k][i])
                 [] k = "creators" -> \A i \in DOMAIN d[k] : CreatorOk(d[k][i])
                 [] k = "resourceType" -> DictOk(d[k])
                 [] OTHER -> LeafOk(d[k])

MdfOk(m) == \A k \in DOMAIN m :
                IF k = "source_name" THEN LeafOk(m[k]) ELSE ListOk(m[k])

IndexOk(ix) == \A t \in DOMAIN ix : \A k \in DOMAIN ix[t] :
                  CASE k = "mapping" -> DictOk(ix[t][k])
                    [] k = "na_values" -> ListOk(ix[t][k])
                    [] OTHER -> LeafOk(ix[t][k])

\* The services block: per service, True (a scalar) or a dict of parameters,
\* tagged as add_service stores them.
ServicesOk(sv) == \A k \in DOMAIN sv :
                     IF sv[k].kind = "dict" THEN DictOk(sv[k].val) ELSE LeafOk(sv[k].val)

\* json.dumps(submission, allow_nan=False) of a whole envelope, key by key.
JsonDumpsNoNaN(env) ==
    \A k \in DOMAIN env :
        CASE k = "dc" -> DcOk(env[k])
          [] k = "mdf" -> MdfOk(env[k])
          [] k \in {"mrr", "custom", "extraction_config"} -> DictOk(env[k])
          [] k = "services" -> ServicesOk(env[k])
          [] k = "projects" -> NestedOk(env[k])
          [] k = "index" -> IndexOk(env[k])
          [] k \in {"data_sources", "data_destinations", "tags", "links", "dataset_acl"}
                -> ListOk(env[k])
          [] k \in {"external_uri", "incremental_update"} -> LeafOk(env[k])
          [] OTHER -> TRUE      \* test, update, curation, no_extract: booleans

\* json.dumps without allow_nan=False accepts NaN and Infinity.
JsonDumpsAllowNaN(env) == TRUE

\* The validation of submit_dataset.
ValidateJson(env) == JsonDumpsNoNaN(env)

\* ----------------------------------------------------------- get_submission
OptAlways(c, k, v) == k :> v
Opt(c, k, v) == IF c THEN k :> v ELSE <<>>

\* The envelope assembled from the builder state, its update flag being u.
Envelope(u) ==
    ("dc" :> dc) @@ ("data_sources" :> data_sources) @@ ("test" :> test) @@ ("update" :> u)
    @@ Opt(NonEmpty(mdf), "mdf", mdf)
    @@ Opt(NonEmpty(mrr), "mrr", mrr)
    @@ Opt(NonEmpty(custom), "custom", custom)
    @@ Opt(NonEmpty(projects), "projects", projects)
    @@ Opt(NonEmpty(data_destinations), "data_destinations", data_destinations)
    @@ Opt(Truthy(external_uri), "external_uri", external_uri)
    @@ Opt(NonEmpty(index), "index", index)
    @@ Opt(NonEmpty(extraction_config), "extraction_config", extraction_config)
    @@ Opt(NonEmpty(services), "services", services)
    @@ Opt(NonEmpty(tags), "tags", tags)
    @@ Opt(NonEmpty(links), "links", links)
    @@ Opt(curation, "curation", curation)
    @@ Opt(no_extract, "no_extract", no_extract)
    @@ Opt(NonEmpty(dataset_acl), "dataset_acl", dataset_acl)
    @@ Opt(Truthy(incremental_update), "incremental_update", incremental_update)

get_submission == Envelope(update)

\* --------------------------------------------------------- reset_submission
\* The assignments of reset_submission.  self.update is not among them.
ResetFields ==
    /\ dc' = <<>>
    /\ mdf' = <<>>
    /\ mrr' = <<>>
    /\ projects' = <<>>
    /\ custom' = <<>>
    /\ extraction_config' = <<>>
    /\ curation' = FALSE
    /\ no_extract' = FALSE
    /\ incremental_update' = PyFalse
    /\ data_sources' = <<>>
    /\ external_uri' = None
    /\ data_destinations' = <<>>
    /\ index' = <<>>
    /\ services' = <<>>
    /\ tags' = <<>>
    /\ links' = <<>>
    /\ dataset_acl' = <<>>
    /\ source_id' = None

\* What a call leaves behind for inspection: the values before it.
Pre == [source_id |-> source_id, test |-> test, update |-> update,
        service_loc |-> service_loc, incremental_update |-> incremental_update,
        dc |-> dc, mdf |-> mdf, mrr |-> mrr, projects |-> projects, custom |-> custom,
        extraction_config |-> extraction_config, data_sources |-> data_sources,
        data_destinations |-> data_destinations, index |-> index,
        services |-> services, tags |-> tags, links |-> links,
        dataset_acl |-> dataset_acl, curation |-> curation, no_extract |-> no_extract,
        external_uri |-> external_uri]

Call(op, args, outcome, result, net) ==
    /\ nset' = nset + 1
    /\ UNCHANGED nsub
    /\ last' = [op |-> op, args |-> args, outcome |-> outcome, result |-> result,
                net |-> net, pre |-> Pre]

reset_submission ==
    /\ ResetFields
    /\ granted' = None
    /\ UNCHANGED <<session, test, update, service_loc>>
    /\ Call("reset_submission", <<>>, "returned",
            [test |-> test, service_location |-> service_loc], <<>>)

\* ------------------------------------------------------------------ setters
S(v) == [kind |-> "scalar", val |-> v]
L(l) == [kind |-> "list", val |-> l]
NoArg == [kind |-> "none", val |-> None]

\* `not x` for a tagged argument.
Falsy(a) == \/ a.kind = "none"
            \/ a.kind = "scalar" /\ ~Truthy(a.val)
            \/ a.kind = "list" /\ a.val = <<>>
\* if not isinstance(x, list): x = [x]
AsList(a) == IF a.kind = "list" THEN a.val ELSE <<a.val>>

\* HumanName(auth) of the nameparser library, on the author strings used here.
HumanName(auth) ==
    CASE auth = "Smith, John" -> [first |-> "John", middle |-> "", last |-> "Smith", suffix |-> ""]
      [] auth = "Jane Q Doe" -> [first |-> "Jane", middle |-> "Q", last |-> "Doe", suffix |-> ""]
      [] OTHER -> [first |-> auth, middle |-> "", last |-> "", suffix |-> ""]

\* "{} {}".format(a, b).strip()
JoinStrip(a, b) == IF b = "" THEN a ELSE IF a = "" THEN b ELSE a \o " " \o b
\* "{}, {}".format(family, given).strip(" ,")
CreatorName(family, given) ==
    IF family = "" THEN given ELSE IF given = "" THEN family ELSE family \o ", " \o given

\* The affiliations list after lines 200-205.  An entry of affiliations may
\* be a str or a list of str, so the entries of a list of affiliations are
\* tagged too, in the argument and in the stored block.
AffiliationsAlwaysBroadcast(authors, affiliations) ==
    LET norm == IF Falsy(affiliations) THEN <<>>
                ELSE IF affiliations.kind = "list" THEN affiliations.val
                ELSE <<S(affiliations.val)>>
    IN  [i \in 1..Len(authors) |-> L(norm)]
Affiliations(authors, affiliations) ==
    LET norm == IF Falsy(affiliations) THEN <<>>
                ELSE IF affiliations.kind = "list" THEN affiliations.val
                ELSE <<S(affiliations.val)>>
    IN  IF Len(authors) # Len(norm)
        THEN [i \in 1..Len(authors) |-> L(norm)]
        ELSE norm

Creator(auth, affs) ==
    LET name == HumanName(auth)
        given == JoinStrip(name.first, name.middle)
        family == JoinStrip(name.last, name.suffix)
        base == [creatorName |-> CreatorName(family, given),
                 familyName |-> family, givenName |-> given]
        lst == IF affs.kind = "list" THEN affs.val ELSE <<affs>>
    IN  IF lst # <<>> THEN base @@ ("affiliations" :> lst) ELSE base

\* The dc block of create_dc_block(title, authors, affiliations), the other
\* arguments left at their defaults.
CurrentYear == "2026"
DcBlock(title, authors, affiliations) ==
    LET names == AsList(authors)
        affl == Affiliations(names, affiliations)
    IN  [titles |-> [i \in DOMAIN AsList(title) |-> [title |-> AsList(title)[i]]],
         creators |-> [i \in DOMAIN names |-> Creator(names[i], affl[i])],
         publisher |-> "Materials Data Facility",
         publicationYear |-> CurrentYear,
         resourceType |-> [resourceTypeGeneral |-> "Dataset", resourceType |-> "Dataset"]]

TitleArgs == {S("T"), NoArg}
AuthorArgs == {S("Smith, John")}
AffiliationArgs == {S("NIST")}

create_dc_block(title, authors, affiliations) ==
    /\ IF Falsy(title) \/ Falsy(authors)
       THEN /\ UNCHANGED dc
            /\ Call("create_dc_block", <<title, authors, affiliations>>, "raised",
                    "TypeError", <<>>)
       ELSE /\ dc' = DcBlock(title, authors, affiliations)
            /\ Call("create_dc_block", <<title, authors, affiliations>>, "returned",
                    None, <<>>)
    /\ UNCHANGED <<session, granted, test, update, service_loc, mdf, mrr, projects, custom,
                   extraction_config, curation, no_extract, incremental_update,
                   data_sources, external_uri, data_destinations, index, services,
                   tags, links, dataset_acl, source_id>>

DataSourceArgs == {S("globus://ep/data/")}

add_data_source(data_source) ==
    /\ data_sources' = data_sources \o AsList(data_source)
    /\ Call("add_data_source", <<data_source>>, "returned", None, <<>>)
    /\ UNCHANGED <<session, granted, test, update, service_loc, dc, mdf, mrr, projects, custom,
                   extraction_config, curation, no_extract, incremental_update,
                   external_uri, data_destinations, index, services,
                   tags, links, dataset_acl, source_id>>

DictArgs == {[a |-> "v"], [a |-> "NaN"]}

\* create_mrr_block stores its argument unchecked.
create_mrr_block(mrr_data) ==
    /\ mrr' = mrr_data
    /\ Call("create_mrr_block", <<mrr_data>>, "returned", None, <<>>)
    /\ UNCHANGED <<session, granted, test, update, service_loc, dc, mdf, projects, custom,
                   extraction_config, curation, no_extract, incremental_update,
                   data_sources, external_uri, data_destinations, index, services,
                   tags, links, dataset_acl, source_id>>

SourceIdArgs == {"prev_v1.1"}

set_incremental_update(sid) ==
    /\ incremental_update' = sid
    /\ Call("set_incremental_update", <<sid>>, "returned", None, <<>>)
    /\ UNCHANGED <<session, granted, test, update, service_loc, dc, mdf, mrr, projects, custom,
                   extraction_config, curation, no_extract,
                   data_sources, external_uri, data_destinations, index, services,
                   tags, links, dataset_acl, source_id>>

\* ----------------------------------------------------------- the service
\* A response of requests.post: its status, whether res.json() parses the
\* body, the parsed body and the raw content.
Statuses == {200, 401, 403, 500}
Bodies == {[parses |-> FALSE, json |-> <<>>, content |-> "<html>"],
           [parses |-> TRUE, json |-> ("source_id" :> "ds_v1.1"), content |-> ""],
           [parses |-> TRUE, json |-> ("source_id" :> "ds_v1.2"), content |-> ""],
           [parses |-> TRUE, json |-> ("error" :> "db down"), content |-> ""]}
Responses == {[status_code |-> s, body |-> b] : s \in Statuses, b \in Bodies}

\* What one call puts on the wire, in order.
Post(url, env, status) == [ev |-> "POST", url |-> url, json |-> env, status |-> status]
Refresh == [ev |-> "handle_missing_authorization"]

\* ------------------------------------------------------------ submit_dataset
\* An omitted submission (None) and {} take the same branch of `not submission`.
NoSubmission == <<>>
SampleDc == DcBlock(S("T"), S("Smith, John"), NoArg)
ExplicitSubmissions ==
    {[dc |-> SampleDc, data_sources |-> <<"globus://ep/data/">>, test |-> TRUE, update |-> FALSE],
     [dc |-> SampleDc, data_sources |-> <<"globus://ep/data/">>, mrr |-> [a |-> "NaN"]],
     [dc |-> <<>>, data_sources |-> <<>>, incremental_update |-> PyFalse,
      mrr |-> [a |-> "NaN"]]}

\* if not submission:
UseStoredAlways(submission) == TRUE
UseStored(submission) == ~NonEmpty(submission)

\* if not update and self.source_id:
NoGuard(upd) == FALSE
AlreadySubmitted(upd) == ~upd /\ Truthy(source_id)

\* The check for required data: "ok", "missing", or "KeyError" when the
\* condition reads a key the envelope does not have.
IncrementalOr(env, otherwise) ==
    IF "incremental_update" \notin DOMAIN env THEN "KeyError"
    ELSE IF Truthy(env["incremental_update"]) THEN "ok" ELSE otherwise
RequiredDataIgnoringIncremental(env) ==
    IF "dc" \notin DOMAIN env THEN "KeyError"
    ELSE IF ~NonEmpty(env["dc"]) THEN "missing"
    ELSE IF "data_sources" \notin DOMAIN env THEN "KeyError"
    ELSE IF ~NonEmpty(env["data_sources"]) THEN "missing"
    ELSE "ok"
RequiredData(env) ==
    IF "dc" \notin DOMAIN env THEN "KeyError"
    ELSE IF ~NonEmpty(env["dc"]) THEN IncrementalOr(env, "missing")
    ELSE IF "data_sources" \notin DOMAIN env THEN "KeyError"
    ELSE IF ~NonEmpty(env["data_sources"]) THEN IncrementalOr(env, "missing")
    ELSE "ok"

\* if res.status_code == 401 or res.status_code == 403:
ReauthOnAnyClientError(status) == status >= 400
NeedsReauth(status) == status = 401 \/ status = 403

\* The requests of one call and its final response: r1 answers the first
\* POST, r2 the second if there is one.
Exchange(url, env, r1, r2) ==
    IF NeedsReauth(r1.status_code)
    THEN [net |-> <<Post(url, env, r1.status_code), Refresh, Post(url, env, r2.status_code)>>,
          res |-> r2]
    ELSE [net |-> <<Post(url, env, r1.status_code)>>, res |-> r1]

\* str(json_res) of a parsed body (the bodies here have one key).
DictRepr(j) == IF DOMAIN j = {} THEN <<"{}">>
               ELSE LET k == CHOOSE k \in DOMAIN j : TRUE
                    IN  <<"{'", k, "': '", j[k], "'}">>

\* The error message of lines 839-853, as the sequence of its pieces; None
\* (no error) is NoError.
NoError == <<>>
ErrorOf(res) ==
    IF ~res.body.parses
    THEN IF res.status_code < 300
         THEN <<"Error decoding ", ToString(res.status_code), " response: ", res.body.content>>
         ELSE <<"Error ", ToString(res.status_code), ". MDF Connect may be experiencing technical",
                " difficulties.">>
    ELSE IF res.status_code < 300 THEN NoError
    ELSE <<"Error ", ToString(res.status_code), " submitting dataset: ">>
         \o (IF "error" \in DOMAIN res.body.json THEN <<res.body.json["error"]>>
             ELSE DictRepr(res.body.json))

\* self.source_id after lines 848-850; "KeyError" when the body has no source_id.
StoreAlways(res) ==
    IF "source_id" \in DOMAIN res.body.json THEN res.body.json["source_id"] ELSE source_id
KeepSourceId(res) ==
    IF res.body.parses /\ res.status_code < 300 /\ "source_id" \notin DOMAIN res.body.json
    THEN "KeyError" ELSE source_id
StoredSourceId(res) ==
    IF res.body.parses /\ res.status_code < 300
    THEN IF "source_id" \in DOMAIN res.body.json THEN res.body.json["source_id"]
         ELSE "KeyError"
    ELSE source_id

AlreadySubmittedError ==
    <<"You have already submitted this dataset.", " Set update=True to resubmit it">>
MissingDataError == <<"You must populate the dc and data blocks before submission.">>
InvalidJsonError ==
    <<"The submission JSON is invalid: ",
      "ValueError('Out of range float values are not JSON compliant')">>

\* The part of submit_dataset before the request (lines 795-824): the stage
\* it stops at ("send" when it goes on to the request), the outcome and
\* result if it stops, self.update after it, and the envelope.
Failure(msg) == [source_id |-> None, success |-> FALSE, error |-> msg]
Stop(stage, outcome, result, u, env) ==
    [stage |-> stage, outcome |-> outcome, result |-> result, update |-> u, env |-> env]

PreFlight(upd, submission) ==
    LET stored == UseStored(submission)
        u == IF stored THEN upd ELSE update
        env == IF stored THEN Envelope(upd) ELSE submission
        req == RequiredData(env)
    IN  IF stored /\ AlreadySubmitted(upd)
        THEN Stop("guard", "returned", Failure(AlreadySubmittedError), update, env)
        ELSE IF req = "KeyError"
        THEN Stop("required", "raised", "KeyError", u, env)
        ELSE IF req = "missing"
        THEN Stop("required", "returned", Failure(MissingDataError), u, env)
        ELSE IF ~ValidateJson(env)
        THEN Stop("json", "returned", Failure(InvalidJsonError), u, env)
        ELSE Stop("send", "none", None, u, env)

\* The part from the request on (lines 826-866), given the exchange x:
\* the outcome, the result, self.source_id before any reset, and whether
\* reset_submission runs.
Finish(x, reset) ==
    LET sid == StoredSourceId(x.res)
    IN  IF sid = "KeyError"
        THEN [outcome |-> "raised", result |-> "KeyError", sid |-> source_id,
              doreset |-> FALSE]
        ELSE [outcome |-> "returned",
              result |-> [source_id |-> sid, success |-> ErrorOf(x.res) = NoError,
                          error |-> ErrorOf(x.res), status_code |-> x.res.status_code],
              sid |-> sid, doreset |-> reset]

\* The responses the service may give to one call.  The first POST may get
\* any response; the body of a response that is retried is never read, so one
\* body stands for all of them.  The POST sent again may get any status, with
\* the body the service documents for it (a source_id below 300, an error
\* otherwise).
FirstResponses ==
    {r \in Responses : NeedsReauth(r.status_code) => ~r.body.parses}
RetryResponses ==
    {r \in Responses :
        /\ r.body.parses
        /\ IF r.status_code < 300 THEN r.body.json = ("source_id" :> "ds_v1.2")
           ELSE "error" \in DOMAIN r.body.json}

\* The history of identifiers: what the response res leaves in `granted`.
Granted(res) ==
    IF res.status_code < 300 /\ res.body.parses /\ "source_id" \in DOMAIN res.body.json
    THEN res.body.json["source_id"]
    ELSE granted

SubmitArgs(upd, submission, reset) ==
    [update |-> upd, submission |-> submission, reset |-> reset]

submit_dataset(upd, submission, reset) ==
    /\ nsub < MaxSubmits
    /\ nsub' = nsub + 1
    /\ UNCHANGED <<session, test, service_loc, nset>>
    /\ LET pf == PreFlight(upd, submission)
       IN  /\ update' = pf.update
           /\ IF pf.stage # "send"
              THEN /\ UNCHANGED <<fields, source_id, granted>>
                   /\ last' = [op |-> "submit_dataset",
                               args |-> SubmitArgs(upd, submission, reset),
                               outcome |-> pf.outcome, result |-> pf.result,
                               net |-> <<>>, pre |-> Pre, stage |-> pf.stage,
                               env |-> pf.env, res |-> None]
              ELSE IF authorizer = None      \* None has no get_authorization_header
              THEN /\ UNCHANGED <<fields, source_id, granted>>
                   /\ last' = [op |-> "submit_dataset",
                               args |-> SubmitArgs(upd, submission, reset),
                               outcome |-> "raised", result |-> "AttributeError",
                               net |-> <<>>, pre |-> Pre, stage |-> "authorize",
                               env |-> pf.env, res |-> None]
              ELSE \E r1 \in FirstResponses :
                   \E r2 \in IF NeedsReauth(r1.status_code) THEN RetryResponses ELSE {r1} :
                     LET x == Exchange(<<service_loc, CONNECT_EXTRACT_ROUTE>>, pf.env, r1, r2)
                         f == Finish(x, reset)
                     IN  /\ IF f.doreset
                            THEN ResetFields
                            ELSE /\ source_id' = f.sid
                                 /\ UNCHANGED fields
                         /\ granted' = IF f.doreset THEN None ELSE Granted(x.res)
                         /\ last' = [op |-> "submit_dataset",
                                     args |-> SubmitArgs(upd, submission, reset),
                                     outcome |-> f.outcome, result |-> f.result,
                                     net |-> x.net, pre |-> Pre, stage |-> "sent",
                                     env |-> pf.env, res |-> x.res]

\* ------------------------------------------------------------------ __init__
\* self.__auths is assigned only by the login flow: with an authorizer passed
\* in, the attribute does not exist and reading it raises AttributeError.
NoAttribute == "AttributeError"
LoginTokens == "tokens"

\* MDFConnectClient(test=t, authorizer=...): explicit tells whether an allowed
\* authorizer was passed in (lines 97-98) or the login flow ran (lines 100-111).
Constructed(t, explicit) ==
    /\ test = t
    /\ update = FALSE
    /\ service_loc = CONNECT_SERVICE_LOC
    /\ authorizer = "authorizer"
    /\ auths = IF explicit THEN NoAttribute ELSE LoginTokens
    /\ dc = <<>> /\ mdf = <<>> /\ mrr = <<>> /\ projects = <<>>
    /\ custom = <<>> /\ extraction_config = <<>>
    /\ curation = FALSE /\ no_extract = FALSE /\ incremental_update = PyFalse
    /\ data_sources = <<>> /\ external_uri = None /\ data_destinations = <<>>
    /\ index = <<>> /\ services = <<>> /\ tags = <<>> /\ links = <<>>
    /\ dataset_acl = <<>>
    /\ source_id = None
    /\ granted = None
    /\ nset = 0 /\ nsub = 0
    /\ last = [op |-> "__init__", args |-> <<>>, outcome |-> "returned",
               result |-> None, net |-> <<>>,
               pre |-> Pre]

\* MDFConnectClient(): the default arguments.
Init == Constructed(FALSE, FALSE)

\* The calls a caller may make next: setters while the budget of setter calls
\* lasts (data_sources kept within MaxLen), submit_dataset within its own.
Next ==
    \/ \E t \in TitleArgs, a \in AuthorArgs, f \in AffiliationArgs :
          nset < MaxSetterCalls /\ create_dc_block(t, a, f)
    \/ \E d \in DataSourceArgs :
          /\ nset < MaxSetterCalls
          /\ Len(data_sources) + Len(AsList(d)) <= MaxLen
          /\ add_data_source(d)
    \/ \E d \in DictArgs : nset < MaxSetterCalls /\ create_mrr_block(d)
    \/ \E sid \in SourceIdArgs : nset < MaxSetterCalls /\ set_incremental_update(sid)
    \/ (nset < MaxSetterCalls /\ reset_submission)
    \/ \E upd \in BOOLEAN, reset \in BOOLEAN : submit_dataset(upd, NoSubmission, reset)
    \/ \E sub \in ExplicitSubmissions, reset \in BOOLEAN : submit_dataset(FALSE, sub, reset)

Spec == Init /\ [][Next]_vars
\* ------------------------------------------------- cumulative list setters
ListArgs == {S("x"), L(<<"x", "y">>)}

clear_data_sources ==
    /\ data_sources' = <<>>
    /\ Call("clear_data_sources", <<>>, "returned", None, <<>>)
    /\ UNCHANGED <<session, granted, test, update, service_loc, dc, mdf, mrr, projects, custom,
                   extraction_config, curation, no_extract, incremental_update,
                   external_uri, data_destinations, index, services,
                   tags, links, dataset_acl, source_id>>

\* self.tags = tag: an assignment where the code extends.
add_tag_assigning(tag) ==
    /\ tags' = AsList(tag)
    /\ Call("add_tag", <<tag>>, "returned", None, <<>>)
    /\ UNCHANGED <<session, granted, test, update, service_loc, dc, mdf, mrr, projects, custom,
                   extraction_config, curation, no_extract, incremental_update,
                   data_sources, external_uri, data_destinations, index, services,
                   links, dataset_acl, source_id>>
add_tag(tag) ==
    /\ tags' = tags \o AsList(tag)
    /\ Call("add_tag", <<tag>>, "returned", None, <<>>)
    /\ UNCHANGED <<session, granted, test, update, service_loc, dc, mdf, mrr, projects, custom,
                   extraction_config, curation, no_extract, incremental_update,
                   data_sources, external_uri, data_destinations, index, services,
                   links, dataset_acl, source_id>>

clear_tags ==
    /\ tags' = <<>>
    /\ Call("clear_tags", <<>>, "returned", None, <<>>)
    /\ UNCHANGED <<session, granted, test, update, service_loc, dc, mdf, mrr, projects, custom,
                   extraction_config, curation, no_extract, incremental_update,
                   data_sources, external_uri, data_destinations, index, services,
                   links, dataset_acl, source_id>>

add_data_destination(data_destination) ==
    /\ data_destinations' = data_destinations \o AsList(data_destination)
    /\ Call("add_data_destination", <<data_destination>>, "returned", None, <<>>)
    /\ UNCHANGED <<session, granted, test, update, service_loc, dc, mdf, mrr, projects, custom,
                   extraction_config, curation, no_extract, incremental_update,
                   data_sources, external_uri, index, services,
                   tags, links, dataset_acl, source_id>>

clear_data_destinations ==
    /\ data_destinations' = <<>>
    /\ Call("clear_data_destinations", <<>>, "returned", None, <<>>)
    /\ UNCHANGED <<session, granted, test, update, service_loc, dc, mdf, mrr, projects, custom,
                   extraction_config, curation, no_extract, incremental_update,
                   data_sources, external_uri, index, services,
                   tags, links, dataset_acl, source_id>>

\* A caller who only adds to and clears the three lists, and resets.
ListNext ==
    \/ \E a \in ListArgs :
          /\ nset < MaxBuilderCalls
          /\ Len(data_sources) + Len(AsList(a)) <= MaxListLen
          /\ add_data_source(a)
    \/ (nset < MaxBuilderCalls /\ clear_data_sources)
    \/ \E a \in ListArgs :
          /\ nset < MaxBuilderCalls
          /\ Len(tags) + Len(AsList(a)) <= MaxListLen
          /\ add_tag(a)
    \/ (nset < MaxBuilderCalls /\ clear_tags)
    \/ \E a \in ListArgs :
          /\ nset < MaxBuilderCalls
          /\ Len(data_destinations) + Len(AsList(a)) <= MaxListLen
          /\ add_data_destination(a)
    \/ (nset < MaxBuilderCalls /\ clear_data_destinations)
    \/ (nset < MaxBuilderCalls /\ reset_submission)

ListSpec == Init /\ [][ListNext]_vars

\* -------------------------------------------------------------- add_index
\* repr(e) of the ValueError json.dumps raises for a non-finite float.
JsonErrorRepr == "ValueError('Out of range float values are not JSON compliant')"

\* The instruction add_index assembles (lines 367-375).
Instruction(mapping, delimiter, na_values) ==
    ("mapping" :> mapping)
    @@ Opt(delimiter # None, "delimiter", delimiter)
    @@ Opt(na_values.kind # "none", "na_values", AsList(na_values))

DataTypes == {"csv", "json"}
MappingArgs == {[f |-> "h1"], [f |-> "h2"], [f |-> "NaN"]}
DelimiterArgs == {None, ","}
NaValuesArgs == {NoArg, S("NaN"), L(<<"", " ">>)}

\* json.dumps(mapping, allow_nan=False): the one validation of add_index.
MappingOk(mapping, delimiter, na_values) == DictOk(mapping)

\* self.index[data_type].update(index): a merge where the code replaces.
StoreIndexMerging(data_type, instruction) ==
    IF data_type \in DOMAIN index
    THEN (data_type :> (instruction @@ index[data_type])) @@ index
    ELSE (data_type :> instruction) @@ index
\* self.index[data_type] = index
StoreIndex(data_type, instruction) == (data_type :> instruction) @@ index

add_index(data_type, mapping, delimiter, na_values) ==
    /\ IF ~MappingOk(mapping, delimiter, na_values)
       THEN /\ UNCHANGED index
            /\ Call("add_index", <<data_type, mapping, delimiter, na_values>>, "returned",
                    "Error: Your mapping is invalid: " \o JsonErrorRepr, <<>>)
       ELSE /\ index' = StoreIndex(data_type, Instruction(mapping, delimiter, na_values))
            /\ Call("add_index", <<data_type, mapping, delimiter, na_values>>, "returned",
                    None, <<>>)
    /\ UNCHANGED <<session, granted, test, update, service_loc, dc, mdf, mrr, projects, custom,
                   extraction_config, curation, no_extract, incremental_update,
                   data_sources, external_uri, data_destinations, services,
                   tags, links, dataset_acl, source_id>>

clear_index ==
    /\ index' = <<>>
    /\ Call("clear_index", <<>>, "returned", None, <<>>)
    /\ UNCHANGED <<session, granted, test, update, service_loc, dc, mdf, mrr, projects, custom,
                   extraction_config, curation, no_extract, incremental_update,
                   data_sources, external_uri, data_destinations, services,
                   tags, links, dataset_acl, source_id>>

\* A caller who only sets and clears indexing instructions.
IndexNext ==
    \/ \E t \in DataTypes, m \in MappingArgs, d \in DelimiterArgs, n \in NaValuesArgs :
          nset < MaxBuilderCalls /\ add_index(t, m, d, n)
    \/ (nset < MaxBuilderCalls /\ clear_index)

IndexSpec == Init /\ [][IndexNext]_vars

\* -------------------------------------------------------- validating setters
set_custom_block(custom_fields) ==
    /\ IF ~DictOk(custom_fields)
       THEN /\ UNCHANGED custom
            /\ Call("set_custom_block", <<custom_fields>>, "returned",
                    "Error: Your custom block is invalid: " \o JsonErrorRepr, <<>>)
       ELSE /\ custom' = custom_fields
            /\ Call("set_custom_block", <<custom_fields>>, "returned", None, <<>>)
    /\ UNCHANGED <<session, granted, test, update, service_loc, dc, mdf, mrr, projects,
                   extraction_config, curation, no_extract, incremental_update,
                   data_sources, external_uri, data_destinations, index, services,
                   tags, links, dataset_acl, source_id>>

\* for field, desc in custom_descriptions.items(): self.custom[field+"_desc"] = desc
WithDescriptions(block, custom_descriptions) ==
    LET keys == {f \o "_desc" : f \in DOMAIN custom_descriptions}
    IN  [k \in keys |-> custom_descriptions[CHOOSE f \in DOMAIN custom_descriptions :
                                                f \o "_desc" = k]]
        @@ block

DescriptionArgs == {[a |-> "about a"], [a |-> "Infinity"]}

set_custom_descriptions(custom_descriptions) ==
    /\ IF ~DictOk(custom_descriptions)
       THEN /\ UNCHANGED custom
            /\ Call("set_custom_descriptions", <<custom_descriptions>>, "returned",
                    "Error: Your custom descriptions are invalid: " \o JsonErrorRepr, <<>>)
       ELSE /\ custom' = WithDescriptions(custom, custom_descriptions)
            /\ Call("set_custom_descriptions", <<custom_descriptions>>, "returned",
                    None, <<>>)
    /\ UNCHANGED <<session, granted, test, update, service_loc, dc, mdf, mrr, projects,
                   extraction_config, curation, no_extract, incremental_update,
                   data_sources, external_uri, data_destinations, index, services,
                   tags, links, dataset_acl, source_id>>

\* self.projects.pop(project, None)
Without(d, k) == [j \in DOMAIN d \ {k} |-> d[j]]

ProjectArgs == {"nanomfg"}
\* data: None or {} (both <<>>), a block, a block with a non-finite float.
ProjectDataArgs == {<<>>, [p |-> "v"], [p |-> "NaN"]}

\* self.projects[project] = data whatever json.dumps says.
set_project_block_unchecked(project, data) ==
    /\ projects' = (project :> data) @@ projects
    /\ Call("set_project_block", <<project, data>>, "returned", None, <<>>)
    /\ UNCHANGED <<session, granted, test, update, service_loc, dc, mdf, mrr, custom,
                   extraction_config, curation, no_extract, incremental_update,
                   data_sources, external_uri, data_destinations, index, services,
                   tags, links, dataset_acl, source_id>>
set_project_block(project, data) ==
    /\ IF ~DictOk(data)
       THEN /\ UNCHANGED projects
            /\ Call("set_project_block", <<project, data>>, "returned",
                    "Your project block is invalid: " \o JsonErrorRepr, <<>>)
       ELSE /\ projects' = IF NonEmpty(data) THEN (project :> data) @@ projects
                           ELSE Without(projects, project)
            /\ Call("set_project_block", <<project, data>>, "returned", None, <<>>)
    /\ UNCHANGED <<session, granted, test, update, service_loc, dc, mdf, mrr, custom,
                   extraction_config, curation, no_extract, incremental_update,
                   data_sources, external_uri, data_destinations, index, services,
                   tags, links, dataset_acl, source_id>>

set_extraction_config(config) ==
    /\ IF ~DictOk(config)
       THEN /\ UNCHANGED extraction_config
            /\ Call("set_extraction_config", <<config>>, "returned",
                    "Error: Your extraction config is invalid: " \o JsonErrorRepr, <<>>)
       ELSE /\ extraction_config' = config
            /\ Call("set_extraction_config", <<config>>, "returned", None, <<>>)
    /\ UNCHANGED <<session, granted, test, update, service_loc, dc, mdf, mrr, projects, custom,
                   curation, no_extract, incremental_update,
                   data_sources, external_uri, data_destinations, index, services,
                   tags, links, dataset_acl, source_id>>

\* A caller who uses the setters that validate their argument.
ValidatingNext ==
    \/ \E d \in DictArgs : nset < MaxBuilderCalls /\ set_custom_block(d)
    \/ \E d \in DescriptionArgs : nset < MaxBuilderCalls /\ set_custom_descriptions(d)
    \/ \E p \in ProjectArgs, d \in ProjectDataArgs :
          nset < MaxBuilderCalls /\ set_project_block(p, d)
    \/ \E d \in DictArgs : nset < MaxBuilderCalls /\ set_extraction_config(d)
    \/ \E m \in {[f |-> "h1"], [f |-> "NaN"]}, n \in {NoArg, S("NaN")} :
          nset < MaxBuilderCalls /\ add_index("csv", m, None, n)

ValidatingSpec == Init /\ [][ValidatingNext]_vars

\* ------------------------------------------------------ unvalidated setters
\* A dict argument where None is also accepted, and Python's True.
D(d) == [kind |-> "dict", val |-> d]
PyTrue == "True"

ServiceArgs == {"mdf_publish"}
ParameterArgs == {NoArg, D([publication_location |-> "globus://ep/pub/"]),
                  D([public |-> "NaN"])}

add_service(service, parameters) ==
    /\ services' = (service :> (IF parameters.kind = "none" THEN S(PyTrue) ELSE parameters))
                   @@ services
    /\ Call("add_service", <<service, parameters>>, "returned", None, <<>>)
    /\ UNCHANGED <<session, granted, test, update, service_loc, dc, mdf, mrr, projects, custom,
                   extraction_config, curation, no_extract, incremental_update,
                   data_sources, external_uri, data_destinations, index,
                   tags, links, dataset_acl, source_id>>

\* self.services = {}
clear_services ==
    /\ services' = <<>>
    /\ Call("clear_services", <<>>, "returned", None, <<>>)
    /\ UNCHANGED <<session, granted, test, update, service_loc, dc, mdf, mrr, projects, custom,
                   extraction_config, curation, no_extract, incremental_update,
                   data_sources, external_uri, data_destinations, index,
                   tags, links, dataset_acl, source_id>>

\* self.mdf.get(key): None when the key is absent.
MdfGet(key) == IF key \in DOMAIN mdf THEN mdf[key] ELSE <<>>

AclArgs == {S("public"), L(<<"uuid-1", "NaN">>)}

set_base_acl(acl) ==
    /\ mdf' = ("acl" :> AsList(acl)) @@ mdf
    /\ Call("set_base_acl", <<acl>>, "returned", None, <<>>)
    /\ UNCHANGED <<session, granted, test, update, service_loc, dc, mrr, projects, custom,
                   extraction_config, curation, no_extract, incremental_update,
                   data_sources, external_uri, data_destinations, index, services,
                   tags, links, dataset_acl, source_id>>

\* self.mdf.pop("acl", None)
clear_base_acl ==
    /\ mdf' = Without(mdf, "acl")
    /\ Call("clear_base_acl", <<>>, "returned", None, <<>>)
    /\ UNCHANGED <<session, granted, test, update, service_loc, dc, mrr, projects, custom,
                   extraction_config, curation, no_extract, incremental_update,
                   data_sources, external_uri, data_destinations, index, services,
                   tags, links, dataset_acl, source_id>>

SourceNameArgs == {"my_dataset"}

\* self.mdf["source_name"] = source_name
set_source_name(source_name) ==
    /\ mdf' = ("source_name" :> source_name) @@ mdf
    /\ Call("set_source_name", <<source_name>>, "returned", None, <<>>)
    /\ UNCHANGED <<session, granted, test, update, service_loc, dc, mrr, projects, custom,
                   extraction_config, curation, no_extract, incremental_update,
                   data_sources, external_uri, data_destinations, index, services,
                   tags, links, dataset_acl, source_id>>

\* self.mdf.pop("source_name", None)
clear_source_name ==
    /\ mdf' = Without(mdf, "source_name")
    /\ Call("clear_source_name", <<>>, "returned", None, <<>>)
    /\ UNCHANGED <<session, granted, test, update, service_loc, dc, mrr, projects, custom,
                   extraction_config, curation, no_extract, incremental_update,
                   data_sources, external_uri, data_destinations, index, services,
                   tags, links, dataset_acl, source_id>>

OrganizationArgs == {S("NIST"), L(<<"CHiMaD", "NaN">>)}

add_organization(organization) ==
    /\ mdf' = IF ~NonEmpty(MdfGet("organizations"))
              THEN ("organizations" :> AsList(organization)) @@ mdf
              ELSE ("organizations" :> (mdf["organizations"] \o AsList(organization))) @@ mdf
    /\ Call("add_organization", <<organization>>, "returned", None, <<>>)
    /\ UNCHANGED <<session, granted, test, update, service_loc, dc, mrr, projects, custom,
                   extraction_config, curation, no_extract, incremental_update,
                   data_sources, external_uri, data_destinations, index, services,
                   tags, links, dataset_acl, source_id>>

LinkArgs == {S("https://doi.org/10.1/x"), S("Infinity")}

\* The links go to self.mdf["links"], and only when none are stored there.
add_links(lnks) ==
    /\ mdf' = IF ~NonEmpty(MdfGet("links")) THEN ("links" :> AsList(lnks)) @@ mdf ELSE mdf
    /\ Call("add_links", <<lnks>>, "returned", None, <<>>)
    /\ UNCHANGED <<session, granted, test, update, service_loc, dc, mrr, projects, custom,
                   extraction_config, curation, no_extract, incremental_update,
                   data_sources, external_uri, data_destinations, index, services,
                   tags, links, dataset_acl, source_id>>

TagArgs == {S("alloys"), S("NaN")}

\* A caller who uses the setters that store their argument as given.
StoringNext ==
    \/ \E d \in DictArgs : nset < MaxBuilderCalls /\ create_mrr_block(d)
    \/ \E sv \in ServiceArgs, p \in ParameterArgs :
          nset < MaxBuilderCalls /\ add_service(sv, p)
    \/ (nset < MaxBuilderCalls /\ clear_services)
    \/ \E a \in AclArgs : nset < MaxBuilderCalls /\ set_base_acl(a)
    \/ \E t \in TagArgs : nset < MaxBuilderCalls /\ add_tag(t)
    \/ \E o \in OrganizationArgs :
          /\ nset < MaxBuilderCalls
          /\ Len(MdfGet("organizations")) + Len(AsList(o)) <= MaxListLen
          /\ add_organization(o)
    \/ \E l \in LinkArgs : nset < MaxBuilderCalls /\ add_links(l)
    \/ \E d \in DictArgs : nset < MaxBuilderCalls /\ set_custom_block(d)

StoringSpec == Init /\ [][StoringNext]_vars

\* ------------------------------------------- submit_dataset_metadata_update
\* The pieces of the envelope a metadata update does not carry (lines 886-895).
StrippedKeys == {"data_sources", "test", "update", "data_destinations", "index",
                 "extraction_config", "services", "curation", "no_extract",
                 "incremental_update"}
Stripped(env) == [k \in DOMAIN env \ StrippedKeys |-> env[k]]

InvalidUpdateJsonError == <<"The metadata update JSON is invalid: ", JsonErrorRepr>>

\* if reset: self.reset_submission()
UpdateNeverResets(reset) == FALSE
UpdateAlwaysResets(reset) == TRUE
UpdateResets(reset) == reset

UpdateSourceIdArgs == {"ds_v1.1"}
ExplicitUpdates == {[dc |-> SampleDc, test |-> TRUE, mrr |-> [a |-> "v"]],
                    [dc |-> SampleDc, custom |-> [a |-> "Infinity"]]}

UpdateArgs(sid, metadata_update, reset) ==
    [source_id |-> sid, metadata_update |-> metadata_update, reset |-> reset]

submit_dataset_metadata_update(sid, metadata_update, reset) ==
    /\ nsub' = nsub + 1
    /\ UNCHANGED <<session, test, update, service_loc, nset>>
    /\ LET env == Stripped(IF ~NonEmpty(metadata_update) THEN get_submission
                           ELSE metadata_update)
       IN  IF ~JsonDumpsNoNaN(env)
           THEN /\ UNCHANGED <<fields, source_id, granted>>
                /\ last' = [op |-> "submit_dataset_metadata_update",
                            args |-> UpdateArgs(sid, metadata_update, reset),
                            outcome |-> "returned",
                            result |-> Failure(InvalidUpdateJsonError),
                            net |-> <<>>, pre |-> Pre, stage |-> "json",
                            env |-> env, res |-> None]
           ELSE \E r1 \in FirstResponses :
                \E r2 \in IF NeedsReauth(r1.status_code) THEN RetryResponses ELSE {r1} :
                  LET x == Exchange(<<service_loc, CONNECT_MD_UPDATE_ROUTE, sid>>, env, r1, r2)
                  IN  /\ IF UpdateResets(reset)
                         THEN ResetFields /\ granted' = None
                         ELSE UNCHANGED <<fields, source_id, granted>>
                      /\ last' = [op |-> "submit_dataset_metadata_update",
                                  args |-> UpdateArgs(sid, metadata_update, reset),
                                  outcome |-> "returned",
                                  result |-> [success |-> ErrorOf(x.res) = NoError,
                                              error |-> ErrorOf(x.res),
                                              status_code |-> x.res.status_code],
                                  net |-> x.net, pre |-> Pre, stage |-> "sent",
                                  env |-> env, res |-> x.res]

\* A caller who submits a dataset and then updates its metadata.
UpdateNext ==
    \/ \E d \in DictArgs : nset < MaxSetterCalls /\ create_mrr_block(d)
    \/ \E sid \in SourceIdArgs : nset < MaxSetterCalls /\ set_incremental_update(sid)
    \/ \E upd \in BOOLEAN : submit_dataset(upd, NoSubmission, FALSE)
    \/ \E sid \in UpdateSourceIdArgs, reset \in BOOLEAN :
          nsub < MaxSubmits /\ submit_dataset_metadata_update(sid, NoSubmission, reset)
    \/ \E sid \in UpdateSourceIdArgs, mu \in ExplicitUpdates, reset \in BOOLEAN :
          nsub < MaxSubmits /\ submit_dataset_metadata_update(sid, mu, reset)

UpdateSpec == Init /\ [][UpdateNext]_vars

\* ----------------------------------------------------------------- curation
\* DEFAULT_CURATION_REASONS
DefaultCurationReasons ==
    [accept |-> "This submission has been accepted because it meets the appropriate standards",
     reject |-> "This submission has been rejected because it does not meet the appropriate standards"]

\* s.strip().lower(), on the strings used here.
StripLower(str) ==
    CASE str = " Reject " -> "reject"
      [] str = " Yes " -> "yes"
      [] str = "  " -> ""
      [] OTHER -> str
\* s.strip(), on the strings used here.
Strip(str) ==
    CASE str = "  " -> ""
      [] str = " too small " -> "too small"
      [] OTHER -> str

\* if verdict not in self.default_curation_reasons.keys():
AnyVerdict(verdict) == TRUE
ValidVerdict(verdict) == verdict \in DOMAIN DefaultCurationReasons

Get(url, status) == [ev |-> "GET", url |-> url, status |-> status]
\* requests.get(url, headers=headers, json=command): a GET carrying a body.
GetJson(url, body, status) == [ev |-> "GET", url |-> url, json |-> body, status |-> status]

Unparseable == [parses |-> FALSE, json |-> <<>>, content |-> "<html>"]
Parsed(j) == [parses |-> TRUE, json |-> j, content |-> ""]
Response(status, body) == [status_code |-> status, body |-> body]

\* The answers of the service to the GET of a curation task.
FirstLookups == {Response(200, Parsed("curation_task" :> "task")),
                 Response(200, Unparseable),
                 Response(404, Parsed("error" :> "no such task")),
                 Response(500, Unparseable),
                 Response(401, Unparseable)}
RetryLookups == {Response(200, Parsed("curation_task" :> "task")),
                 Response(403, Parsed("error" :> "forbidden")),
                 Response(404, Unparseable)}

\* get_curation_task: the requests it sends and its final response.
GetCurationTask(url, r1, r2) ==
    IF NeedsReauth(r1.status_code)
    THEN [net |-> <<Get(url, r1.status_code), Refresh, Get(url, r2.status_code)>>, res |-> r2]
    ELSE [net |-> <<Get(url, r1.status_code)>>, res |-> r1]

\* What get_curation_task(raw=True) returns for its final response.
TaskJson(res) ==
    IF ~res.body.parses
    THEN [success |-> FALSE, error |-> "Expecting value: " \o res.body.content,
          status_code |-> res.status_code]
    ELSE ("status_code" :> res.status_code) @@ res.body.json

\* if task_json["status_code"] == 404: ... elif task_json["status_code"] >= 300:
LookupFailsOn404Only(status) == status = 404
LookupFails(status) == status = 404 \/ status >= 300

\* The error of a failed lookup (lines 1360-1373).
LookupError(task_json) ==
    IF task_json["status_code"] = 404
    THEN IF "error" \in DOMAIN task_json THEN <<task_json["error"]>>
         ELSE <<"Curation task not found">>
    ELSE <<"Error ", ToString(task_json["status_code"]), " fetching curation task: ">>
         \o (IF "error" \in DOMAIN task_json THEN <<task_json["error"]>>
             ELSE <<"MDF Connect may be experiencing technical difficulties.">>)

\* if not reason: reason = self.default_curation_reasons[verdict]
\* ("KeyError" when the dict has no such verdict).
ReasonAsGiven(reason, verdict) == reason
ReasonSent(reason, verdict) ==
    IF Truthy(reason) THEN reason
    ELSE IF verdict \in DOMAIN DefaultCurationReasons THEN DefaultCurationReasons[verdict]
    ELSE "KeyError"

Command(verdict, reason) == [action |-> verdict, reason |-> reason]

\* The verdict request and the request sent again after a 401 or 403.
PostVerdict(url, command, r1, r2) ==
    IF NeedsReauth(r1.status_code)
    THEN [net |-> <<Post(url, command, r1.status_code), Refresh,
                    GetJson(url, command, r2.status_code)>>,
          res |-> r2]
    ELSE [net |-> <<Post(url, command, r1.status_code)>>, res |-> r1]

FirstVerdictResponses == {Response(200, Parsed("message" :> "Submission accepted")),
                          Response(200, Unparseable),
                          Response(500, Parsed("error" :> "db down")),
                          Response(401, Unparseable),
                          Response(403, Unparseable)}
RetryVerdictResponses == {Response(200, Parsed("message" :> "Submission accepted")),
                          Response(403, Parsed("error" :> "forbidden"))}

\* What the call prints (raw=False) or puts in the "error" of the dict it
\* returns, for the final response of the verdict request (lines 1421-1443).
VerdictError(res, raw) ==
    IF ~res.body.parses
    THEN IF raw THEN <<"Expecting value", ": ", res.body.content>>
         ELSE IF res.status_code < 300
         THEN <<"Error decoding ", ToString(res.status_code), " response: ", res.body.content>>
         ELSE <<"Error ", ToString(res.status_code), ". MDF Connect may be experiencing technical",
                " difficulties.">>
    ELSE IF raw \/ res.status_code < 300 THEN NoError
    ELSE <<"Error ", ToString(res.status_code), " fetching curation task: ">>
         \o (IF "error" \in DOMAIN res.body.json THEN <<res.body.json["error"]>>
             ELSE DictRepr(res.body.json))
\* The dict returned for the final response when raw=True.
VerdictResult(res) ==
    IF ~res.body.parses
    THEN [success |-> FALSE, error |-> VerdictError(res, TRUE), status_code |-> res.status_code]
    ELSE ("status_code" :> res.status_code) @@ res.body.json

InvalidVerdictError(verdict) ==
    <<"Verdict '", verdict, "' is invalid. Valid verdicts are: ",
      "dict_keys(['accept', 'reject'])">>
CancelledError == <<"Curation cancelled">>

\* return {"success": False, "error": error} if raw, else print(error); return
Rejected(error, raw) == IF raw THEN [success |-> FALSE, error |-> error] ELSE None

\* The answers typed at the prompts of input().
ConfirmAnswers == {" Yes ", "no"}
TypedReasons == {"  ", " too small "}
NoAnswer == ""

\* The answers of the service to the GET that prints the task summary
\* (prompt=True); what it holds is only printed.
FirstSummaries == {r \in FirstLookups : r.status_code \in {200, 401} /\ r # Response(200, Unparseable)}
RetrySummaries == {r \in RetryLookups : r.status_code = 200}

CurationArgs(sid, verdict, reason, prompt, raw) ==
    [source_id |-> sid, verdict |-> verdict, reason |-> reason, prompt |-> prompt, raw |-> raw]

\* The end of one call: what it returned, what it reported, what it sent.
\* lookup is the final status of the task lookup (0: no lookup made), answer
\* what was typed at the confirmation (NoAnswer: not asked), command what
\* the verdict request carried (<<>>: no verdict request).
EndCuration(via, args, stage, result, error, net, lookup, answer, command) ==
    /\ nsub' = nsub + 1
    /\ UNCHANGED <<session, granted, test, update, service_loc, fields, source_id, nset>>
    /\ last' = [op |-> "_complete_curation_task", via |-> via, args |-> args,
                outcome |-> IF stage = "raised" THEN "raised" ELSE "returned",
                result |-> result, error |-> error,
                net |-> net, pre |-> Pre, stage |-> stage, lookup |-> lookup,
                answer |-> answer, command |-> command]

\* The verdict request and what follows it (lines 1402-1443).
SubmitVerdict(via, args, verdict, reason, net, lookup, answer) ==
    IF ReasonSent(reason, verdict) = "KeyError"
    THEN EndCuration(via, args, "raised", "KeyError", NoError, net, lookup, answer, <<>>)
    ELSE
    \E p1 \in FirstVerdictResponses :
    \E p2 \in IF NeedsReauth(p1.status_code) THEN RetryVerdictResponses ELSE {p1} :
       LET command == Command(verdict, ReasonSent(reason, verdict))
           x == PostVerdict(<<service_loc, CONNECT_CURATION_ROUTE, args.source_id>>,
                            command, p1, p2)
       IN  EndCuration(via, args, "sent",
                       IF args.raw THEN VerdictResult(x.res) ELSE None,
                       VerdictError(x.res, args.raw), net \o x.net, lookup, answer, command)

complete_curation_task(via, sid, given_verdict, reason, prompt, raw) ==
    LET args == CurationArgs(sid, given_verdict, reason, prompt, raw)
        verdict == StripLower(given_verdict)
        url == <<service_loc, CONNECT_CURATION_ROUTE, sid>>
    IN  IF ~ValidVerdict(verdict)
        THEN EndCuration(via, args, "verdict", Rejected(InvalidVerdictError(verdict), raw),
                         InvalidVerdictError(verdict), <<>>, 0, NoAnswer, <<>>)
        ELSE
        \E l1 \in FirstLookups :
        \E l2 \in IF NeedsReauth(l1.status_code) THEN RetryLookups ELSE {l1} :
          LET lk == GetCurationTask(url, l1, l2)
              task_json == TaskJson(lk.res)
              status == task_json["status_code"]
          IN  IF LookupFails(status)
              THEN EndCuration(via, args, "lookup", Rejected(LookupError(task_json), raw),
                               LookupError(task_json), lk.net, status, NoAnswer, <<>>)
              ELSE IF ~prompt
              THEN SubmitVerdict(via, args, verdict, reason, lk.net, status, NoAnswer)
              ELSE
              \E s1 \in FirstSummaries :
              \E s2 \in IF NeedsReauth(s1.status_code) THEN RetrySummaries ELSE {s1} :
              \E answer \in ConfirmAnswers :
                LET net == lk.net \o GetCurationTask(url, s1, s2).net
                IN  IF StripLower(answer) # "yes"
                    THEN EndCuration(via, args, "cancelled", Rejected(CancelledError, raw),
                                     CancelledError, net, status, answer, <<>>)
                    ELSE IF Truthy(reason)
                    THEN SubmitVerdict(via, args, verdict, reason, net, status, answer)
                    ELSE \E typed \in TypedReasons :
                           SubmitVerdict(via, args, verdict, Strip(typed), net, status, answer)

ReasonArgs == {None, "meets the standards"}
CurationSourceIdArgs == {"ds_v1.1"}
VerdictArgs == {" Reject ", "approve"}

accept_curation_submission(sid, reason, prompt, raw) ==
    complete_curation_task("accept_curation_submission", sid, "accept", reason, prompt, raw)
reject_curation_submission(sid, reason, prompt, raw) ==
    complete_curation_task("reject_curation_submission", sid, "reject", reason, prompt, raw)

\* A curator who accepts or rejects submissions.
CurationNext ==
    \/ \E sid \in CurationSourceIdArgs, reason \in ReasonArgs, prompt \in BOOLEAN,
          raw \in BOOLEAN :
          nsub < MaxCurationCalls /\ accept_curation_submission(sid, reason, prompt, raw)
    \/ \E sid \in CurationSourceIdArgs, reason \in ReasonArgs, prompt \in BOOLEAN,
          raw \in BOOLEAN :
          nsub < MaxCurationCalls /\ reject_curation_submission(sid, reason, prompt, raw)
    \/ \E sid \in CurationSourceIdArgs, v \in VerdictArgs, reason \in ReasonArgs,
          prompt \in BOOLEAN, raw \in BOOLEAN :
          /\ nsub < MaxCurationCalls
          /\ complete_curation_task("_complete_curation_task", sid, v, reason, prompt, raw)

CurationSpec == Init /\ [][CurationNext]_vars

\* ------------------------------------------------ authors and affiliations
\* create_dc_block called with one or several authors and with every shape of
\* affiliations: none, a str, an empty list, a flat list, a list holding a
\* list, a list of one list.
DcAuthorArgs == {S("Smith, John"), L(<<"Smith, John", "Jane Q Doe">>),
                 L(<<"Jane Q Doe", "Plato", "Smith, John">>)}
DcAffiliationArgs ==
    {NoArg, S("NIST"), L(<<>>), L(<<S("NIST"), S("UChicago")>>),
     L(<<S("NIST"), L(<<S("NIST"), S("UChicago")>>)>>),
     L(<<L(<<S("NIST"), S("UChicago")>>)>>),
     L(<<S("NIST"), L(<<>>), S("Argonne")>>)}

\* A caller who builds the dc block again and again.
DcNext ==
    \/ \E t \in TitleArgs, a \in DcAuthorArgs, f \in DcAffiliationArgs :
          nset < MaxBuilderCalls /\ create_dc_block(t, a, f)
    \/ (nset < MaxBuilderCalls /\ reset_submission)

DcSpec == Init /\ [][DcNext]_vars

\* -------------------------------------------------------- upload_to_endpoint
\* A path is the sequence of the components os.path.join puts together.
DefaultEndpoint == "82f1b5c6-6e9b-11e5-ba47-22000b92c6ec"
HttpsServer == "https://data.ncsa.org"

\* What is at local_data_path.  For a directory, what os.walk yields, top
\* down: per directory its path relative to local_data_path (<<>> for the
\* directory itself) and the names of its files.
LocalDir(walk) == [kind |-> "dir", walk |-> walk, name |-> ""]
LocalFile(name) == [kind |-> "file", walk |-> <<>>, name |-> name]
NothingThere == [kind |-> "unknown", walk |-> <<>>, name |-> ""]
LocalPaths ==
    {LocalDir(<<[subpath |-> <<>>, files |-> <<"a.csv">>],
                [subpath |-> <<"raw">>, files |-> <<"c.csv">>],
                [subpath |-> <<"raw", "x">>, files |-> <<"d.csv">>]>>),
     LocalDir(<<[subpath |-> <<>>, files |-> <<"a.csv", "b.csv">>],
                [subpath |-> <<"empty">>, files |-> <<>>]>>),
     LocalFile("a.csv"),
     NothingThere}

\* The requests of an upload: a mkdir of the transfer client, its
\* get_endpoint, a PUT; status is what the service answered.
Mkdir(path, status) == [ev |-> "operation_mkdir", target |-> path, status |-> status]
GetEndpoint(endpoint_id, status) ==
    [ev |-> "get_endpoint", target |-> <<endpoint_id>>, status |-> status]
Put(url, status) == [ev |-> "PUT", target |-> url, status |-> status]

\* dest_path.lstrip("/") and urllib.parse.quote(path, safe="*") on the first
\* component of a path; the other components hold no character to quote or
\* to strip.
LStripSlash(path) == IF path[1] = "/tmp" THEN <<"tmp">> \o Tail(path) ELSE path
RECURSIVE QuoteRest(_)
QuoteRest(path) ==
    IF path = <<>> THEN <<>> ELSE <<"%2F", path[1]>> \o QuoteRest(Tail(path))
Quote(path) ==
    (IF path[1] = "/tmp" THEN <<"%2F", "tmp">> ELSE <<path[1]>>) \o QuoteRest(Tail(path))

\* _make_globus_link
GlobusLink(endpoint_id, path) ==
    <<"https://app.globus.org/file-manager?origin_id=", endpoint_id, "&origin_path=">>
    \o Quote(path)

\* The requests _upload_file makes for one file.
FileSteps(filename, dest_path) ==
    <<Put(<<HttpsServer>> \o LStripSlash(dest_path) \o <<filename>>, 0)>>

\* The requests _upload_folder makes if none fails, from entry i of the walk
\* on; dest_path is the destination in force on entry.
RECURSIVE FilesSteps(_, _, _)
FilesSteps(files, dest_path, j) ==
    IF j > Len(files) THEN <<>>
    ELSE FileSteps(files[j], dest_path) \o FilesSteps(files, dest_path, j + 1)
RECURSIVE FolderSteps(_, _, _, _)
FolderSteps(walk, parent_dest_path, dest_path, i) ==
    IF i > Len(walk) THEN <<>>
    ELSE LET child == walk[i].subpath # <<>>
             dest == IF child THEN parent_dest_path \o walk[i].subpath ELSE dest_path
         IN  (IF child THEN <<Mkdir(dest, 0)>> ELSE <<>>)
             \o FilesSteps(walk[i].files, dest, 1)
             \o FolderSteps(walk, parent_dest_path, dest, i + 1)

\* The requests of upload_to_endpoint if none fails.
UploadSteps(local, endpoint_id, dest_path) ==
    <<Mkdir(dest_path, 0), GetEndpoint(endpoint_id, 0)>>
    \o (CASE local.kind = "dir" -> FolderSteps(local.walk, dest_path, dest_path, 1)
          [] local.kind = "file" -> FileSteps(local.name, dest_path)
          [] OTHER -> <<>>)

\* if reply.status_code != 200: raise IOError
PutFailsOnErrorStatus(status) == status >= 400
PutFails(status) == status # 200
\* The transfer client raises TransferAPIError on an error status.
RequestFails(step, status) ==
    IF step.ev = "PUT" THEN PutFails(status) ELSE status >= 400

\* The requests made, each with its answer: the steps up to and including the
\* first that fails, since the error it raises is caught nowhere.
RECURSIVE Issued(_, _, _)
Issued(steps, answers, i) ==
    IF i > Len(steps) THEN <<>>
    ELSE LET req == [steps[i] EXCEPT !.status = answers[i]]
         IN  IF RequestFails(steps[i], answers[i]) THEN <<req>>
             ELSE <<req>> \o Issued(steps, answers, i + 1)

UploadStatuses == {200, 201, 500}
DestChildArgs == {None, "pub1"}
Uuids == {"0b1d-4c6e"}

UploadArgs(local, endpoint_id, dest_parent, dest_child) ==
    [local_data_path |-> local, endpoint_id |-> endpoint_id,
     dest_parent |-> dest_parent, dest_child |-> dest_child]

\* The end of one call: the exception it raised (None when it returned), the
\* pair it returned (nothing when it raised), the requests it made.
EndUpload(args, error, result, net) ==
    /\ nsub' = nsub + 1
    /\ UNCHANGED <<session, granted, test, update, service_loc, fields, source_id, nset>>
    /\ last' = [op |-> "upload_to_endpoint", args |-> args,
                outcome |-> IF error = None THEN "returned" ELSE "raised",
                error |-> error, result |-> result, net |-> net, pre |-> Pre]

\* The services answer 200 to every request but at most one, request k, which
\* gets any of the statuses.
upload_to_endpoint(local, endpoint_id, dest_parent, dest_child) ==
    LET args == UploadArgs(local, endpoint_id, dest_parent, dest_child)
    IN  IF auths = NoAttribute
        THEN EndUpload(args, "AttributeError", <<>>, <<>>)
        ELSE
        \E uuid \in Uuids :
          LET dest_path == <<IF dest_parent = None THEN "/tmp" ELSE dest_parent,
                             IF dest_child = None THEN uuid ELSE dest_child>>
              steps == UploadSteps(local, endpoint_id, dest_path)
          IN  \E k \in 0..Len(steps), status \in UploadStatuses :
                LET answers == [i \in 1..Len(steps) |-> IF i = k THEN status ELSE 200]
                    net == Issued(steps, answers, 1)
                    failed == RequestFails(net[Len(net)], net[Len(net)].status)
                IN  IF failed /\ net[Len(net)].ev = "get_endpoint"
                    THEN EndUpload(args, "TransferAPIError", <<>>, net)
                    ELSE IF failed \/ local.kind = "unknown"
                    THEN EndUpload(args, "IOError", <<>>, net)
                    ELSE EndUpload(args, None,
                                   <<GlobusLink(endpoint_id, dest_path), "">>, net)

\* A caller who stages local data on the endpoint, having logged in or having
\* passed an authorizer.
UploadInit == \E explicit \in BOOLEAN : Constructed(FALSE, explicit)
UploadNext ==
    \/ \E local \in LocalPaths, child \in DestChildArgs :
          nsub < MaxSubmits /\ upload_to_endpoint(local, DefaultEndpoint, None, child)
    \/ \E d \in DataSourceArgs :
          /\ nset < MaxSetterCalls
          /\ Len(data_sources) + Len(AsList(d)) <= MaxLen
          /\ add_data_source(d)
    \/ (nset < MaxSetterCalls /\ clear_data_sources)

UploadSpec == UploadInit /\ [][UploadNext]_vars

\* ---------------------------------------------------- flags and single values
set_test(t) ==
    /\ test' = t
    /\ Call("set_test", <<t>>, "returned", None, <<>>)
    /\ UNCHANGED <<session, granted, update, service_loc, dc, mdf, mrr, projects,
                   custom, extraction_config, curation, no_extract,
                   incremental_update, data_sources, external_uri, data_destinations,
                   index, services, tags, links, dataset_acl, source_id>>

set_external_uri(uri) ==
    /\ external_uri' = uri
    /\ Call("set_external_uri", <<uri>>, "returned", None, <<>>)
    /\ UNCHANGED <<session, granted, test, update, service_loc, dc, mdf, mrr,
                   projects, custom, extraction_config, curation, no_extract,
                   incremental_update, data_sources, data_destinations, index,
                   services, tags, links, dataset_acl, source_id>>

clear_external_uri ==
    /\ external_uri' = None
    /\ Call("clear_external_uri", <<>>, "returned", None, <<>>)
    /\ UNCHANGED <<session, granted, test, update, service_loc, dc, mdf, mrr,
                   projects, custom, extraction_config, curation, no_extract,
                   incremental_update, data_sources, data_destinations, index,
                   services, tags, links, dataset_acl, source_id>>

set_passthrough(passthrough) ==
    /\ no_extract' = passthrough
    /\ Call("set_passthrough", <<passthrough>>, "returned", None, <<>>)
    /\ UNCHANGED <<session, granted, test, update, service_loc, dc, mdf, mrr,
                   projects, custom, extraction_config, curation, incremental_update,
                   data_sources, external_uri, data_destinations, index, services,
                   tags, links, dataset_acl, source_id>>

set_curation(flag) ==
    /\ curation' = flag
    /\ Call("set_curation", <<flag>>, "returned", None, <<>>)
    /\ UNCHANGED <<session, granted, test, update, service_loc, dc, mdf, mrr,
                   projects, custom, extraction_config, no_extract,
                   incremental_update, data_sources, external_uri, data_destinations,
                   index, services, tags, links, dataset_acl, source_id>>

set_dataset_acl(acl) ==
    /\ dataset_acl' = AsList(acl)
    /\ Call("set_dataset_acl", <<acl>>, "returned", None, <<>>)
    /\ UNCHANGED <<session, granted, test, update, service_loc, dc, mdf, mrr,
                   projects, custom, extraction_config, curation, no_extract,
                   incremental_update, data_sources, external_uri, data_destinations,
                   index, services, tags, links, source_id>>

\* self.dataset_acl = None: a list slot holding None is <<>>.
clear_dataset_acl ==
    /\ dataset_acl' = <<>>
    /\ Call("clear_dataset_acl", <<>>, "returned", None, <<>>)
    /\ UNCHANGED <<session, granted, test, update, service_loc, dc, mdf, mrr,
                   projects, custom, extraction_config, curation, no_extract,
                   incremental_update, data_sources, external_uri, data_destinations,
                   index, services, tags, links, source_id>>

UriArgs == {"https://example.org/ds"}
EnvelopeDataTypes == {"json"}
EnvelopeMappings == {[f |-> "h1"]}
EnvelopeDicts == {[a |-> "v"]}
EnvelopeLists == {S("x")}

\* A caller who sets and clears every piece of the envelope on a client built
\* with either value of test, and looks at get_submission.
EnvelopeInit == \E t \in BOOLEAN : Constructed(t, FALSE)
EnvelopeNext ==
    \/ \E t \in {S("T")}, a \in AuthorArgs, f \in AffiliationArgs :
          nset < MaxEnvelopeCalls /\ create_dc_block(t, a, f)
    \/ \E d \in EnvelopeLists : nset < MaxEnvelopeCalls /\ add_data_source(d)
    \/ \E t \in BOOLEAN : nset < MaxEnvelopeCalls /\ set_test(t)
    \/ \E a \in EnvelopeLists : nset < MaxEnvelopeCalls /\ set_base_acl(a)
    \/ \E d \in EnvelopeDicts : nset < MaxEnvelopeCalls /\ create_mrr_block(d)
    \/ \E d \in EnvelopeDicts : nset < MaxEnvelopeCalls /\ set_custom_block(d)
    \/ \E pr \in ProjectArgs, d \in EnvelopeDicts :
          nset < MaxEnvelopeCalls /\ set_project_block(pr, d)
    \/ \E d \in EnvelopeLists : nset < MaxEnvelopeCalls /\ add_data_destination(d)
    \/ \E u \in UriArgs : nset < MaxEnvelopeCalls /\ set_external_uri(u)
    \/ (nset < MaxEnvelopeCalls /\ clear_external_uri)
    \/ \E dt \in EnvelopeDataTypes, m \in EnvelopeMappings :
          nset < MaxEnvelopeCalls /\ add_index(dt, m, None, NoArg)
    \/ \E d \in EnvelopeDicts : nset < MaxEnvelopeCalls /\ set_extraction_config(d)
    \/ \E sv \in ServiceArgs : nset < MaxEnvelopeCalls /\ add_service(sv, NoArg)
    \/ \E t \in EnvelopeLists : nset < MaxEnvelopeCalls /\ add_tag(t)
    \/ \E c \in BOOLEAN : nset < MaxEnvelopeCalls /\ set_curation(c)
    \/ \E pt \in BOOLEAN : nset < MaxEnvelopeCalls /\ set_passthrough(pt)
    \/ \E a \in EnvelopeLists : nset < MaxEnvelopeCalls /\ set_dataset_acl(a)
    \/ (nset < MaxEnvelopeCalls /\ clear_dataset_acl)
    \/ \E sid \in SourceIdArgs : nset < MaxEnvelopeCalls /\ set_incremental_update(sid)
    \/ (nset < MaxEnvelopeCalls /\ reset_submission)
    \/ \E upd \in BOOLEAN : nsub < MaxCurationCalls /\ submit_dataset(upd, NoSubmission, FALSE)

EnvelopeSpec == EnvelopeInit /\ [][EnvelopeNext]_vars

\* -------------------------------------------------- links and organizations
\* self.links = []: the list get_submission reads, not self.mdf["links"].
clear_links ==
    /\ links' = <<>>
    /\ Call("clear_links", <<>>, "returned", None, <<>>)
    /\ UNCHANGED <<session, granted, test, update, service_loc, dc, mdf, mrr,
                   projects, custom, extraction_config, curation, no_extract,
                   incremental_update, data_sources, external_uri, data_destinations,
                   index, services, tags, dataset_acl, source_id>>

\* self.mdf.pop("organizations", None)
clear_organizations ==
    /\ mdf' = Without(mdf, "organizations")
    /\ Call("clear_organizations", <<>>, "returned", None, <<>>)
    /\ UNCHANGED <<session, granted, test, update, service_loc, dc, mrr, projects,
                   custom, extraction_config, curation, no_extract,
                   incremental_update, data_sources, external_uri, data_destinations,
                   index, services, tags, links, dataset_acl, source_id>>

LinksArgs == {S("doi:10.1/a"), L(<<"doi:10.1/b", "doi:10.1/c">>)}
LinkedOrganizations == {S("NIST"), L(<<"CHiMaD", "ANL">>)}

\* A caller who sets and clears the keys of the mdf block: links,
\* organizations, the base ACL and the source name.
LinksNext ==
    \/ \E l \in LinksArgs : nset < MaxBuilderCalls /\ add_links(l)
    \/ (nset < MaxBuilderCalls /\ clear_links)
    \/ \E o \in LinkedOrganizations :
          /\ nset < MaxBuilderCalls
          /\ Len(MdfGet("organizations")) + Len(AsList(o)) <= MaxListLen
          /\ add_organization(o)
    \/ (nset < MaxBuilderCalls /\ clear_organizations)
    \/ \E a \in AclArgs : nset < MaxBuilderCalls /\ set_base_acl(a)
    \/ (nset < MaxBuilderCalls /\ clear_base_acl)
    \/ \E n \in SourceNameArgs : nset < MaxBuilderCalls /\ set_source_name(n)
    \/ (nset < MaxBuilderCalls /\ clear_source_name)
    \/ (nset < MaxBuilderCalls /\ reset_submission)

LinksSpec == Init /\ [][LinksNext]_vars

\* ------------------------------------------------------------------ queries
CONNECT_STATUS_ROUTE == "/status/"
CONNECT_ALL_STATUS_ROUTE == "/submissions/"
CONNECT_ALL_CURATION_ROUTE == "/curation/"

\* The GET of a query and the GET sent again after a 401 or 403.
Fetch(url, r1, r2) ==
    IF NeedsReauth(r1.status_code)
    THEN [net |-> <<Get(url, r1.status_code), Refresh, Get(url, r2.status_code)>>, res |-> r2]
    ELSE [net |-> <<Get(url, r1.status_code)>>, res |-> r1]

\* The end of one query: what it returned, what it printed, what it sent.
\* No query assigns to the client.
EndQuery(op, args, error, result, printed, net) ==
    /\ nsub' = nsub + 1
    /\ UNCHANGED <<session, granted, test, update, service_loc, fields, source_id, nset>>
    /\ last' = [op |-> op, args |-> args,
                outcome |-> IF error = None THEN "returned" ELSE "raised",
                error |-> error, result |-> result, printed |-> printed,
                net |-> net, pre |-> Pre]

\* except Exception as e: the body of the final response is not JSON.
UndecodableResult(res, raw) ==
    IF raw THEN [success |-> FALSE,
                 error |-> <<"Expecting value", ": ", res.body.content>>,
                 status_code |-> res.status_code]
    ELSE None
UndecodablePrinted(res, raw) ==
    IF raw THEN <<>>
    ELSE IF res.status_code < 300
    THEN <<"Error decoding ", ToString(res.status_code), " response: ", res.body.content>>
    ELSE <<"Error ", ToString(res.status_code), ". MDF Connect may be experiencing technical",
           " difficulties.">>

\* json_res["status_code"] = res.status_code; return json_res
RawResult(res) == ("status_code" :> res.status_code) @@ res.body.json

\* print("Error {} fetching ...: {}".format(status, json_res.get("error", json_res)))
FetchError(res, what) ==
    <<"Error ", ToString(res.status_code), " fetching ", what, ": ">>
    \o (IF "error" \in DOMAIN res.body.json THEN <<res.body.json["error"]>>
        ELSE DictRepr(res.body.json))

\* ------------------------------------------------------------- check_status
StillProcessing == "This submission is still processing."
NoLongerProcessing == "This submission is no longer processing."

\* if json_res.get("status", {}).get("active"):
ActiveMsg(j) ==
    IF "status" \in DOMAIN j /\ j["status"].active THEN StillProcessing
    ELSE NoLongerProcessing

\* if not source_id and not self.source_id: the negation, a request is made.
StatusRequestAlways(sid) == TRUE
StatusRequestNeeded(sid) == Truthy(sid) \/ Truthy(source_id)

StatusOf(active) == [active |-> active, status_message |-> "Extraction: started"]
FirstStatuses == {Response(200, Parsed("status" :> StatusOf(TRUE))),
                  Response(200, Parsed("message" :> "ok")),
                  Response(200, Unparseable),
                  Response(404, Parsed("error" :> "no such submission")),
                  Response(401, Unparseable)}
RetryStatuses == {Response(200, Parsed("status" :> StatusOf(FALSE))),
                  Response(403, Parsed("error" :> "forbidden"))}

StatusArgs(sid, short, raw) == [source_id |-> sid, short |-> short, raw |-> raw]

check_status(sid, short, raw) ==
    LET args == StatusArgs(sid, short, raw)
        target == IF Truthy(sid) THEN sid ELSE source_id
        url == <<service_loc, CONNECT_STATUS_ROUTE, target>>
    IN  IF ~StatusRequestNeeded(sid)
        THEN EndQuery("check_status", args, None, None, <<"Error: No dataset submitted">>, <<>>)
        ELSE
        \E r1 \in FirstStatuses :
        \E r2 \in IF NeedsReauth(r1.status_code) THEN RetryStatuses ELSE {r1} :
          LET x == Fetch(url, r1, r2)
              res == x.res
              j == res.body.json
          IN  IF ~res.body.parses
              THEN EndQuery("check_status", args, None, UndecodableResult(res, raw),
                            UndecodablePrinted(res, raw), x.net)
              ELSE IF raw
              THEN EndQuery("check_status", args, None, RawResult(res), <<>>, x.net)
              ELSE IF res.status_code >= 300
              THEN EndQuery("check_status", args, None, None, FetchError(res, "status"), x.net)
              ELSE IF short
              THEN EndQuery("check_status", args, None, None,
                            <<target, ": ", ActiveMsg(j)>>, x.net)
              ELSE IF "status" \notin DOMAIN j
              THEN EndQuery("check_status", args, "KeyError", None, <<>>, x.net)
              ELSE EndQuery("check_status", args, None, None,
                            <<"\n", j["status"].status_message, "\n", ActiveMsg(j), "\n">>,
                            x.net)

\* ---------------------------------------------------- check_all_submissions
\* The word for a status code (a string, here the sequence of its characters).
Has(code, ch) == \E i \in DOMAIN code : code[i] = ch
StatusWord(code) ==
    IF Has(code, "F") THEN "Failed"
    ELSE IF Has(code, "P") THEN "Processing"
    ELSE IF code[Len(code)] = "S" THEN "Succeeded"
    ELSE IF code[Len(code)] = "X" THEN "Cancelled"
    ELSE IF code[1] = "z" THEN "Not started"
    ELSE IF Has(code, "R") THEN "Retrying error"
    ELSE "Unknown"

\* What the loop over json_res["submissions"] prints.
RECURSIVE SubmissionLines(_, _)
SubmissionLines(subs, verbose) ==
    IF subs = <<>> THEN <<>>
    ELSE LET sub == Head(subs)
         IN  (IF verbose
              THEN <<"\n\n", sub.status_message,
                     IF sub.active THEN StillProcessing ELSE NoLongerProcessing>>
              ELSE <<sub.source_id, ": ",
                     IF sub.active THEN "Processing" ELSE "Not processing",
                     " - ", StatusWord(sub.status_code)>>)
             \o SubmissionLines(Tail(subs), verbose)

\* filters, with the date filters left at None.
Filters(active_only, include_tests) ==
    (IF active_only THEN << <<"active", "==", TRUE>> >> ELSE <<>>)
    \o (IF ~include_tests THEN << <<"test", "==", FALSE>> >> ELSE <<>>)

SubmissionOf(sid, active, code) ==
    [source_id |-> sid, active |-> active, status_code |-> code,
     status_message |-> "Extraction: started"]
FirstSubmissionLists ==
    {Response(200, Parsed("submissions" :> <<SubmissionOf("ds_v1.1", TRUE, <<"S", "P", "z">>),
                                            SubmissionOf("old_v1.1", FALSE, <<"S", "S", "S">>)>>)),
     Response(200, Parsed("submissions" :> <<>>)),
     Response(200, Parsed("message" :> "ok")),
     Response(200, Unparseable),
     Response(500, Parsed("error" :> "db down")),
     Response(403, Unparseable)}
RetrySubmissionLists ==
    {Response(200, Parsed("submissions" :> <<SubmissionOf("ds_v1.1", FALSE, <<"S", "F", "X">>)>>)),
     Response(401, Parsed("error" :> "forbidden"))}

AllStatusArgs(verbose, active_only, include_tests, raw) ==
    [verbose |-> verbose, active_only |-> active_only, include_tests |-> include_tests,
     raw |-> raw]

check_all_submissions(verbose, active_only, include_tests, raw) ==
    LET args == AllStatusArgs(verbose, active_only, include_tests, raw)
        body == [filters |-> Filters(active_only, include_tests)]
        url == <<service_loc, CONNECT_ALL_STATUS_ROUTE, "">>
    IN  \E r1 \in FirstSubmissionLists :
        \E r2 \in IF NeedsReauth(r1.status_code) THEN RetrySubmissionLists ELSE {r1} :
          LET x == Exchange(url, body, r1, r2)
              res == x.res
              j == res.body.json
          IN  IF ~res.body.parses
              THEN EndQuery("check_all_submissions", args, None, UndecodableResult(res, raw),
                            UndecodablePrinted(res, raw), x.net)
              ELSE IF raw
              THEN EndQuery("check_all_submissions", args, None, RawResult(res), <<>>, x.net)
              ELSE IF res.status_code >= 300
              THEN EndQuery("check_all_submissions", args, None, None,
                            FetchError(res, "status"), x.net)
              ELSE IF "submissions" \notin DOMAIN j
              THEN EndQuery("check_all_submissions", args, "KeyError", None,
                            IF verbose THEN <<>> ELSE <<"">>, x.net)
              ELSE EndQuery("check_all_submissions", args, None, None,
                            (IF verbose THEN <<>> ELSE <<"">>)
                            \o SubmissionLines(j["submissions"], verbose), x.net)

\* --------------------------------------------------------- curation queries
\* CURATION_SUMMARY_STR.format(...)
CurationSummary(task) ==
    <<task.source_id, " by ", task.submission_info.submitter, "\nWaiting since ",
      task.curation_start_date, "\n", task.extraction_summary, "\n">>
\* json.dumps(task, indent=4, sort_keys=True)
Dumped(task) == [dumps |-> task]

TaskOf(sid) ==
    [source_id |-> sid, submission_info |-> [submitter |-> "J. Smith"],
     curation_start_date |-> "2020-02-11", extraction_summary |-> "3 records"]
FirstTasks == {Response(200, Parsed("curation_task" :> TaskOf("ds_v1.1"))),
               Response(200, Parsed("message" :> "ok")),
               Response(200, Unparseable),
               Response(404, Parsed("error" :> "no such task")),
               Response(401, Unparseable)}
RetryTasks == {Response(200, Parsed("curation_task" :> TaskOf("ds_v1.1"))),
               Response(403, Parsed("error" :> "forbidden"))}

TaskArgs(sid, summary, raw) == [source_id |-> sid, summary |-> summary, raw |-> raw]

get_curation_task(sid, summary, raw) ==
    LET args == TaskArgs(sid, summary, raw)
        url == <<service_loc, CONNECT_CURATION_ROUTE, sid>>
    IN  \E r1 \in FirstTasks :
        \E r2 \in IF NeedsReauth(r1.status_code) THEN RetryTasks ELSE {r1} :
          LET x == Fetch(url, r1, r2)
              res == x.res
              j == res.body.json
          IN  IF ~res.body.parses
              THEN EndQuery("get_curation_task", args, None, UndecodableResult(res, raw),
                            UndecodablePrinted(res, raw), x.net)
              ELSE IF raw
              THEN EndQuery("get_curation_task", args, None, RawResult(res), <<>>, x.net)
              ELSE IF res.status_code >= 300
              THEN EndQuery("get_curation_task", args, None, None,
                            FetchError(res, "curation task"), x.net)
              ELSE IF "curation_task" \notin DOMAIN j
              THEN EndQuery("get_curation_task", args, "KeyError", None, <<>>, x.net)
              ELSE EndQuery("get_curation_task", args, None, None,
                            IF summary THEN CurationSummary(j["curation_task"])
                            ELSE <<Dumped(j["curation_task"])>>, x.net)

\* What the loops over json_res["curation_tasks"] print.
RECURSIVE TaskLines(_, _)
TaskLines(tasks, summary) ==
    IF tasks = <<>> THEN <<>>
    ELSE (IF summary THEN CurationSummary(Head(tasks))
          ELSE <<"========== ", Head(tasks).source_id, " ==========",
                 Dumped(Head(tasks)), "\n">>)
         \o TaskLines(Tail(tasks), summary)

FirstTaskLists ==
    {Response(200, Parsed("curation_tasks" :> <<TaskOf("ds_v1.1"), TaskOf("old_v1.1")>>)),
     Response(200, Parsed("curation_tasks" :> <<>>)),
     Response(200, Parsed("message" :> "ok")),
     Response(200, Unparseable),
     Response(500, Parsed("error" :> "db down")),
     Response(401, Unparseable)}
RetryTaskLists ==
    {Response(200, Parsed("curation_tasks" :> <<TaskOf("ds_v1.1")>>)),
     Response(403, Parsed("error" :> "forbidden"))}

AllTasksArgs(summary, raw) == [summary |-> summary, raw |-> raw]

get_available_curation_tasks(summary, raw) ==
    LET args == AllTasksArgs(summary, raw)
        url == <<service_loc, CONNECT_ALL_CURATION_ROUTE, "">>
    IN  \E r1 \in FirstTaskLists :
        \E r2 \in IF NeedsReauth(r1.status_code) THEN RetryTaskLists ELSE {r1} :
          LET x == Fetch(url, r1, r2)
              res == x.res
              j == res.body.json
          IN  IF ~res.body.parses
              THEN EndQuery("get_available_curation_tasks", args, None,
                            UndecodableResult(res, raw), UndecodablePrinted(res, raw), x.net)
              ELSE IF raw
              THEN EndQuery("get_available_curation_tasks", args, None, RawResult(res),
                            <<>>, x.net)
              ELSE IF res.status_code >= 300
              THEN EndQuery("get_available_curation_tasks", args, None, None,
                            FetchError(res, "curation tasks"), x.net)
              ELSE IF "curation_tasks" \notin DOMAIN j
              THEN EndQuery("get_available_curation_tasks", args, "KeyError", None, <<>>, x.net)
              ELSE IF Len(j["curation_tasks"]) < 1
              THEN EndQuery("get_available_curation_tasks", args, None, None,
                            <<"You have no open curation tasks.">>, x.net)
              ELSE EndQuery("get_available_curation_tasks", args, None, None,
                            (IF summary THEN <<"">> ELSE <<>>)
                            \o TaskLines(j["curation_tasks"], summary), x.net)

StatusSourceIdArgs == {None, "other_v1.1"}

\* A caller who fills and submits a dataset, then asks about submissions and
\* curation tasks, curates, and updates metadata.
QueryNext ==
    \/ \E t \in TitleArgs, a \in AuthorArgs, f \in AffiliationArgs :
          nset < MaxSetterCalls /\ create_dc_block(t, a, f)
    \/ \E d \in DataSourceArgs :
          /\ nset < MaxSetterCalls
          /\ Len(data_sources) + Len(AsList(d)) <= MaxLen
          /\ add_data_source(d)
    \/ \E upd \in BOOLEAN : nsub < MaxCurationCalls /\ submit_dataset(upd, NoSubmission, FALSE)
    \/ \E sid \in StatusSourceIdArgs, short \in BOOLEAN, raw \in BOOLEAN :
          nsub < MaxSubmits /\ check_status(sid, short, raw)
    \/ \E verbose \in BOOLEAN, narrow \in BOOLEAN, raw \in BOOLEAN :
          nsub < MaxSubmits /\ check_all_submissions(verbose, narrow, ~narrow, raw)
    \/ \E sid \in CurationSourceIdArgs, summary \in BOOLEAN, raw \in BOOLEAN :
          nsub < MaxSubmits /\ get_curation_task(sid, summary, raw)
    \/ \E summary \in BOOLEAN, raw \in BOOLEAN :
          nsub < MaxSubmits /\ get_available_curation_tasks(summary, raw)
    \/ \E sid \in CurationSourceIdArgs, reason \in ReasonArgs, raw \in BOOLEAN :
          nsub < MaxCurationCalls /\ accept_curation_submission(sid, reason, FALSE, raw)
    \/ \E sid \in CurationSourceIdArgs, reason \in ReasonArgs, raw \in BOOLEAN :
          nsub < MaxCurationCalls /\ reject_curation_submission(sid, reason, FALSE, raw)
    \/ \E sid \in UpdateSourceIdArgs, reset \in BOOLEAN :
          nsub < MaxSubmits /\ submit_dataset_metadata_update(sid, NoSubmission, reset)

QuerySpec == Init /\ [][QueryNext]_vars

\* ------------------------------------------------------------------ logout
LoggedOut == "Logged out. You must create a new MDF Connect Client to log back in."

\* reset_submission(), then self.__authorizer = None, then the test of
\* self.__auths: an attribute __init__ assigns only in the login flow, so on a
\* client built with an authorizer the test raises AttributeError, after the
\* reset and after the authorizer was discarded.
logout ==
    /\ ResetFields
    /\ granted' = None
    /\ authorizer' = None
    /\ IF auths = NoAttribute
       THEN /\ auths' = auths
            /\ Call("logout", <<>>, "raised", NoAttribute, <<>>)
       ELSE /\ auths' = None
            /\ Call("logout", <<>>, "returned", LoggedOut, <<>>)
    /\ UNCHANGED <<test, update, service_loc>>

\* A client built either way, filled, submitted and logged out, and used
\* again after that.
LogoutInit == \E explicit \in BOOLEAN : Constructed(FALSE, explicit)
LogoutNext ==
    \/ \E t \in TitleArgs, a \in AuthorArgs, f \in AffiliationArgs :
          nset < MaxBuilderCalls /\ create_dc_block(t, a, f)
    \/ \E d \in DataSourceArgs :
          /\ nset < MaxBuilderCalls
          /\ Len(data_sources) + Len(AsList(d)) <= MaxLen
          /\ add_data_source(d)
    \/ \E upd \in BOOLEAN : submit_dataset(upd, NoSubmission, FALSE)
    \/ (nset < MaxBuilderCalls /\ logout)

LogoutSpec == LogoutInit /\ [][LogoutNext]_vars

\* ------------------------------------------------------------------ claims
IsSubmit == last.op = "submit_dataset"
FromBuilder == ~NonEmpty(last.args.submission)
Returned == last.outcome = "returned"
Posts == {i \in DOMAIN last.net : last.net[i].ev = "POST"}
Refreshes == {i \in DOMAIN last.net : last.net[i].ev = "handle_missing_authorization"}

\* C1: on a client holding a source_id, submit_dataset(update=False) without
\* an explicit submission returns success=False with the "already submitted"
\* error and sends nothing (no POST, no credential refresh).
C1_SubmitGuard ==
    (IsSubmit /\ FromBuilder /\ ~last.args.update /\ Truthy(last.pre.source_id))
        => /\ Returned
           /\ last.result.success = FALSE
           /\ last.result.error = AlreadySubmittedError
           /\ last.net = <<>>
C1_Witness ==
    /\ IsSubmit /\ FromBuilder /\ ~last.args.update
    /\ last.pre.source_id = "ds_v1.1" /\ last.stage = "guard"

\* C2 (as claimed): a submit_dataset that assembles the envelope from the
\* builder, with an empty dc block or no data source and no incremental
\* update set, returns success=False with the "You must populate" error,
\* raises nothing and sends nothing.
C2_MissingDataIsReturned ==
    (/\ IsSubmit /\ FromBuilder /\ last.stage # "guard"
     /\ ~NonEmpty(last.env["dc"]) \/ ~NonEmpty(last.env["data_sources"])
     /\ "incremental_update" \notin DOMAIN last.env)
        => /\ Returned
           /\ last.result.success = FALSE
           /\ last.result.error = MissingDataError
           /\ last.net = <<>>

\* C3: with an incremental update set, a submit_dataset from the builder with
\* an empty dc block or no data source passes the required-data check: it goes
\* on to the JSON validation and, the envelope being serializable, to the POST
\* of that envelope.
C3_IncrementalExemption ==
    (/\ IsSubmit /\ FromBuilder /\ last.stage # "guard"
     /\ Truthy(last.pre.incremental_update)
     /\ ~NonEmpty(last.env["dc"]) \/ ~NonEmpty(last.env["data_sources"]))
        => /\ last.stage \in {"json", "sent"}
           /\ JsonDumpsNoNaN(last.env) =>
                 /\ last.stage = "sent"
                 /\ last.net # <<>>
                 /\ last.net[1].ev = "POST"
                 /\ last.net[1].json = last.env
                 /\ last.env["incremental_update"] = last.pre.incremental_update
C3_Witness ==
    /\ IsSubmit /\ FromBuilder /\ Truthy(last.pre.incremental_update)
    /\ ~NonEmpty(last.env["dc"]) /\ ~NonEmpty(last.env["data_sources"])
    /\ last.stage = "sent"

\* C4 (as claimed): a submit_dataset whose envelope is not JSON-serializable
\* returns success=False with the "invalid JSON" error and sends nothing.
C4_InvalidJsonAlwaysReported ==
    (IsSubmit /\ ~JsonDumpsNoNaN(last.env))
        => /\ Returned
           /\ last.result.success = FALSE
           /\ last.result.error = InvalidJsonError
           /\ last.net = <<>>
\* C4 (amended): a submit_dataset whose envelope is not JSON-serializable sends
\* nothing, and no POST ever carries such an envelope; unless the
\* already-submitted guard or the required-data check ended the call first,
\* it returns success=False with the "invalid JSON" error.
C4_NoRequestWithInvalidJson ==
    IsSubmit =>
        /\ \A i \in Posts : JsonDumpsNoNaN(last.net[i].json)
        /\ ~JsonDumpsNoNaN(last.env) =>
              /\ last.net = <<>>
              /\ last.stage \notin {"guard", "required"} =>
                    /\ Returned
                    /\ last.result.success = FALSE
                    /\ last.result.error = InvalidJsonError
C4_Witness ==
    /\ IsSubmit /\ FromBuilder /\ ~JsonDumpsNoNaN(last.env)
    /\ last.stage = "json" /\ last.net = <<>>

\* C5: one submit_dataset call refreshes the credentials at most once, and only
\* after a 401 or 403 answer to its first POST; it then sends the same POST
\* once more and takes that answer as final, whatever its status.  Any other
\* first answer is final.  A call sends at most two POSTs.
C5_SingleAuthRetry ==
    IsSubmit =>
        /\ Cardinality(Posts) <= 2
        /\ Cardinality(Refreshes) <= 1
        /\ last.stage # "sent" => last.net = <<>>
        /\ last.stage = "sent" =>
              /\ last.net[1].ev = "POST"
              /\ IF last.net[1].status \in {401, 403}
                 THEN /\ Len(last.net) = 3
                      /\ last.net[2].ev = "handle_missing_authorization"
                      /\ last.net[3].ev = "POST"
                      /\ last.net[3].json = last.net[1].json
                      /\ last.net[3].url = last.net[1].url
                      /\ last.res.status_code = last.net[3].status
                 ELSE /\ Len(last.net) = 1
                      /\ last.res.status_code = last.net[1].status
              /\ Returned => last.result.status_code = last.res.status_code
C5_Witness ==
    /\ IsSubmit /\ Len(last.net) = 3
    /\ last.net[1].status = 401 /\ last.net[3].status = 403
    /\ Returned /\ last.result.status_code = 403

\* C6: when the final response of submit_dataset(reset=False) has a status
\* below 300 and a parseable body with a source_id, the call returns
\* success=True, error None and that source_id, and the client stores it.
C6_SuccessStoresIdentifier ==
    (/\ IsSubmit /\ ~last.args.reset /\ last.stage = "sent"
     /\ last.res.status_code < 300 /\ last.res.body.parses
     /\ "source_id" \in DOMAIN last.res.body.json)
        => /\ Returned
           /\ last.result.success = TRUE
           /\ last.result.error = NoError
           /\ last.result.source_id = last.res.body.json["source_id"]
           /\ source_id = last.res.body.json["source_id"]
C6_Witness ==
    /\ IsSubmit /\ ~last.args.reset /\ last.stage = "sent"
    /\ last.res.status_code = 200 /\ last.res.body.parses
    /\ last.pre.source_id = "ds_v1.1" /\ source_id = "ds_v1.2"

\* C7: when the final response of submit_dataset(reset=False) has a status of
\* 300 or more or an unparseable body, the stored source_id is what it was
\* before the call, and the returned error holds the status code and, for a
\* parseable body with an "error" field, that field's value.
C7_FailureKeepsIdentifier ==
    (/\ IsSubmit /\ ~last.args.reset /\ last.stage = "sent"
     /\ last.res.status_code >= 300 \/ ~last.res.body.parses)
        => /\ source_id = last.pre.source_id
           /\ Returned
           /\ last.result.success = FALSE
           /\ ToString(last.res.status_code) \in Range(last.result.error)
           /\ (last.res.body.parses /\ "error" \in DOMAIN last.res.body.json)
                 => last.res.body.json["error"] \in Range(last.result.error)
C7_Witness ==
    /\ IsSubmit /\ ~last.args.reset /\ last.stage = "sent"
    /\ last.res.status_code = 500 /\ last.res.body.parses
    /\ "source_id" \in DOMAIN last.res.body.json
    /\ last.pre.source_id = "ds_v1.1" /\ source_id = "ds_v1.1"

\* C8 (as claimed): a submit_dataset from the builder whose final response has
\* a status of 300 or more returns success=False and source_id None, on a
\* fresh client and on one that resubmits with update=True.
C8_FailedSendReportsNoIdentifier ==
    (/\ IsSubmit /\ FromBuilder /\ last.stage = "sent" /\ Returned
     /\ last.res.status_code >= 300)
        => /\ last.result.success = FALSE
           /\ last.result.source_id = None

\* The state reset_submission is meant to leave: every field as constructed.
FieldsAtDefaults ==
    /\ dc = <<>> /\ mdf = <<>> /\ mrr = <<>> /\ projects = <<>>
    /\ custom = <<>> /\ extraction_config = <<>>
    /\ curation = FALSE /\ no_extract = FALSE /\ ~Truthy(incremental_update)
    /\ data_sources = <<>> /\ ~Truthy(external_uri) /\ data_destinations = <<>>
    /\ index = <<>> /\ services = <<>> /\ tags = <<>> /\ links = <<>>
    /\ dataset_acl = <<>>
    /\ source_id = None
    /\ update = FALSE

\* C9 (as claimed): whatever submit_dataset(reset=True) returns, the builder is
\* in the reset state afterwards.
C9_ResetAlwaysResets ==
    (IsSubmit /\ last.args.reset /\ Returned) => FieldsAtDefaults

\* C10 (as claimed): after reset_submission every field, the stored source_id
\* and get_submission() are as on a fresh client, the test flag and the
\* endpoint keeping their values.
C10_ResetLaw ==
    last.op = "reset_submission"
        => /\ FieldsAtDefaults
           /\ get_submission = [dc |-> <<>>, data_sources |-> <<>>,
                                test |-> last.pre.test, update |-> FALSE]
           /\ test = last.pre.test
           /\ service_loc = last.pre.service_loc
\* The argument of an add call as the list it stands for: a scalar counts as
\* a one-element list.
Normalized(a) == IF a.kind = "scalar" THEN <<a.val>> ELSE a.val

\* C11: each add call on data_sources, data_destinations or tags leaves the
\* list as it was with the normalized argument appended (order and duplicates
\* kept), each clear call and each reset leaves it empty, and no other call
\* changes it: the list is the concatenation, in call order, of the arguments
\* added since the last clear or reset.
C11_CumulativeAddClear ==
    /\ data_sources =
          CASE last.op = "add_data_source" -> last.pre.data_sources \o Normalized(last.args[1])
            [] last.op \in {"clear_data_sources", "reset_submission", "__init__"} -> <<>>
            [] OTHER -> last.pre.data_sources
    /\ tags =
          CASE last.op = "add_tag" -> last.pre.tags \o Normalized(last.args[1])
            [] last.op \in {"clear_tags", "reset_submission", "__init__"} -> <<>>
            [] OTHER -> last.pre.tags
    /\ data_destinations =
          CASE last.op = "add_data_destination"
                  -> last.pre.data_destinations \o Normalized(last.args[1])
            [] last.op \in {"clear_data_destinations", "reset_submission", "__init__"} -> <<>>
            [] OTHER -> last.pre.data_destinations
C11_Witness ==
    /\ last.op = "add_tag" /\ last.args = <<S("x")>>
    /\ last.pre.tags = <<"x", "y">> /\ tags = <<"x", "y", "x">>
    /\ data_sources = <<"x">> \/ data_destinations = <<"x">>
\* A setter call that returned None, and one that returned an error string.
Accepted == last.outcome = "returned" /\ last.result = None
Refused == last.outcome = "returned" /\ last.result # None

\* C12: after a successful add_index(t, m, delimiter, na_values) the entry
\* under t is exactly that instruction: its mapping, a delimiter only if this
\* call gave one, na_values (as a list) only if this call gave them, and
\* nothing of an earlier entry under t; the entries under other data types
\* are what they were.
C12_IndexOverwrite ==
    (last.op = "add_index" /\ Accepted) =>
        LET t == last.args[1]
            keys == {"mapping"}
                    \cup (IF last.args[3] # None THEN {"delimiter"} ELSE {})
                    \cup (IF last.args[4] # NoArg THEN {"na_values"} ELSE {})
        IN  /\ DOMAIN index = DOMAIN last.pre.index \cup {t}
            /\ DOMAIN index[t] = keys
            /\ index[t]["mapping"] = last.args[2]
            /\ "delimiter" \in keys => index[t]["delimiter"] = last.args[3]
            /\ "na_values" \in keys => index[t]["na_values"] = Normalized(last.args[4])
            /\ \A u \in DOMAIN last.pre.index \ {t} : index[u] = last.pre.index[u]
C12_Witness ==
    /\ last.op = "add_index" /\ Accepted
    /\ last.args = <<"csv", [f |-> "h2"], None, NoArg>>
    /\ DOMAIN last.pre.index = {"csv", "json"}
    /\ last.pre.index["csv"] = [mapping |-> [f |-> "h1"], delimiter |-> ",",
                                na_values |-> <<"", " ">>]
    /\ index["csv"] = [mapping |-> [f |-> "h2"]]
    /\ index["json"] = last.pre.index["json"]

\* The whole instruction of an add_index call is JSON-serializable.
MappingAndInstructionOk(mapping, delimiter, na_values) ==
    /\ DictOk(mapping)
    /\ LeafOk(delimiter)
    /\ ListOk(AsList(na_values))

\* C13 (as claimed): an add_index call whose mapping, or whose assembled
\* instruction with its delimiter and na_values, is not JSON-serializable
\* returns an error and leaves the stored index unchanged.
C13_WholeInstructionValidated ==
    (/\ last.op = "add_index"
     /\ ~MappingAndInstructionOk(last.args[2], last.args[3], last.args[4]))
        => /\ Refused
           /\ index = last.pre.index
\* Every field of the builder is what it was before the last call.
FieldsAsBefore ==
    /\ dc = last.pre.dc /\ mdf = last.pre.mdf /\ mrr = last.pre.mrr
    /\ projects = last.pre.projects /\ custom = last.pre.custom
    /\ extraction_config = last.pre.extraction_config
    /\ curation = last.pre.curation /\ no_extract = last.pre.no_extract
    /\ incremental_update = last.pre.incremental_update
    /\ data_sources = last.pre.data_sources /\ external_uri = last.pre.external_uri
    /\ data_destinations = last.pre.data_destinations /\ index = last.pre.index
    /\ services = last.pre.services /\ tags = last.pre.tags /\ links = last.pre.links
    /\ dataset_acl = last.pre.dataset_acl

\* The last call is one to a validating setter whose mapping argument (the
\* one it validates) holds a NaN or Infinity.
NonFiniteArgument ==
    \/ /\ last.op \in {"set_custom_block", "set_custom_descriptions", "set_extraction_config"}
       /\ ~DictOk(last.args[1])
    \/ (last.op = "set_project_block" /\ ~DictOk(last.args[2]))
    \/ (last.op = "add_index" /\ ~DictOk(last.args[2]))

\* C14: a call of set_custom_block, set_custom_descriptions,
\* set_project_block, set_extraction_config or add_index whose mapping
\* argument holds a NaN or Infinity returns an error string, and a call of
\* these that returns an error string leaves every field of the builder, the
\* one it sets included, as it was.
C14_ValidatingSettersAtomic ==
    /\ NonFiniteArgument => Refused
    /\ Refused => FieldsAsBefore
C14_Witness ==
    /\ last.op = "set_project_block" /\ last.args = <<"nanomfg", [p |-> "NaN"]>>
    /\ Refused
    /\ projects = [nanomfg |-> [p |-> "v"]]
    /\ custom # <<>>
\* C15 (as claimed): no setter stores an argument that is not
\* JSON-serializable: in every reachable state every stored fragment of the
\* builder is JSON-serializable.
C15_StoredFragmentsSerializable ==
    /\ DcOk(dc) /\ MdfOk(mdf) /\ DictOk(mrr) /\ NestedOk(projects) /\ DictOk(custom)
    /\ DictOk(extraction_config) /\ IndexOk(index) /\ ServicesOk(services)
    /\ ListOk(data_sources) /\ ListOk(data_destinations) /\ ListOk(tags)
    /\ ListOk(links) /\ ListOk(dataset_acl)
    /\ LeafOk(external_uri) /\ LeafOk(incremental_update)
IsUpdate == last.op = "submit_dataset_metadata_update"

\* C16 (as claimed): whatever its outcome and whatever its reset argument,
\* submit_dataset_metadata_update leaves the stored source_id as it was.
C16_UpdateNeverChangesIdentifier ==
    IsUpdate => source_id = last.pre.source_id
\* C16 (amended): submit_dataset_metadata_update(reset=False) leaves the stored
\* source_id as it was, whatever the outcome; with reset=True the stored
\* source_id is as it was when the call returns at the JSON validation, and
\* None when it returns after the request.
C16_UpdateKeepsIdentifierUnlessReset ==
    IsUpdate =>
        IF last.args.reset /\ last.stage = "sent"
        THEN source_id = None
        ELSE source_id = last.pre.source_id
C16_Witness ==
    /\ IsUpdate /\ last.args.reset /\ last.stage = "sent"
    /\ last.pre.source_id = "ds_v1.1" /\ source_id = None
    /\ last.result.success
IsCuration == last.op = "_complete_curation_task"
\* The call reported a failure: success=False in the dict returned when
\* raw=True, the error printed and None returned otherwise.
ReportedFailure ==
    /\ last.error # NoError
    /\ IF last.args.raw THEN last.result.success = FALSE ELSE last.result = None
\* The final status of the task lookup, read off the requests: the first GET,
\* or the GET sent again after a credential refresh.
LookupStatus ==
    IF Len(last.net) >= 3 /\ last.net[2].ev = "handle_missing_authorization"
    THEN last.net[3].status
    ELSE last.net[1].status

\* C17: a verdict that, trimmed and lower-cased, is neither "accept" nor
\* "reject" makes _complete_curation_task report a failure with the "invalid
\* verdict" error and send nothing: no task lookup, no credential refresh, no
\* verdict POST.
C17_InvalidVerdictSendsNothing ==
    (IsCuration /\ StripLower(last.args.verdict) \notin {"accept", "reject"})
        => /\ last.net = <<>>
           /\ ReportedFailure
           /\ last.error = InvalidVerdictError(StripLower(last.args.verdict))
C17_Witness ==
    /\ IsCuration /\ last.args.verdict = "approve" /\ last.args.raw
    /\ last.result.success = FALSE /\ last.net = <<>>

\* C18: a call with a valid verdict first sends the GET of the curation task;
\* when that lookup ends with status 404 or any status of 300 or more, the
\* call reports a failure and sends no verdict POST; every verdict POST comes
\* after a lookup that ended with a status below 300.
C18_LookupGatesVerdict ==
    (IsCuration /\ StripLower(last.args.verdict) \in {"accept", "reject"})
        => /\ last.net # <<>>
           /\ last.net[1].ev = "GET"
           /\ LookupStatus >= 300 => (Posts = {} /\ ReportedFailure)
           /\ Posts # {} => /\ LookupStatus < 300
                            /\ \A i \in Posts : i > 1
C18_Witness ==
    /\ IsCuration /\ last.via = "accept_curation_submission" /\ last.args.raw
    /\ Len(last.net) = 3 /\ last.net[1].status = 401 /\ last.net[3].status = 403
    /\ last.result.success = FALSE /\ Posts = {}

\* The confirmation was asked and the answer was not "yes".
Declined == last.answer # NoAnswer /\ StripLower(last.answer) # "yes"
\* Every verdict POST of the call carries (action, reason), and there is one.
VerdictSentWith(action, reason) ==
    /\ Posts # {}
    /\ \A i \in Posts : last.net[i].json = [action |-> action, reason |-> reason]

\* C19 (as claimed): a call with a valid verdict and no reason whose lookup
\* succeeded, the confirmation being skipped (prompt=False) or declined, sends
\* the verdict with the default reason of that verdict.
C19_DefaultReasonWhenDeclinedOrSkipped ==
    (/\ IsCuration /\ last.stage \notin {"verdict", "lookup"}
     /\ ~Truthy(last.args.reason)
     /\ ~last.args.prompt \/ Declined)
        => VerdictSentWith(StripLower(last.args.verdict),
                           DefaultCurationReasons[StripLower(last.args.verdict)])
\* C19 (amended): a call with a valid verdict and no reason whose lookup
\* succeeded sends the verdict with the default reason of that verdict when
\* the confirmation is skipped (prompt=False); when the confirmation is
\* declined it sends no verdict and reports "Curation cancelled".
C19_DefaultReasonWhenSkipped ==
    (IsCuration /\ last.stage \notin {"verdict", "lookup"})
        => /\ (~Truthy(last.args.reason) /\ ~last.args.prompt)
                 => VerdictSentWith(StripLower(last.args.verdict),
                                    DefaultCurationReasons[StripLower(last.args.verdict)])
           /\ Declined => (Posts = {} /\ ReportedFailure /\ last.error = CancelledError)
C19_Witness ==
    /\ IsCuration /\ last.via = "reject_curation_submission"
    /\ last.args.reason = None /\ ~last.args.prompt /\ last.stage = "sent"
    /\ \E i \in Posts : last.net[i].json["reason"] =
          "This submission has been rejected because it does not meet the appropriate standards"

\* C20 (as claimed): the verdict POST that gets 401 or 403 is followed by one
\* credential refresh and one more POST of the same command to the same
\* endpoint, and by nothing else; a verdict POST that gets any other status is
\* the last request of the call.
C20_VerdictRetriedByPost ==
    (IsCuration /\ last.stage = "sent") =>
        LET i == CHOOSE j \in Posts : \A k \in Posts : j <= k
        IN  IF last.net[i].status \in {401, 403}
            THEN /\ Len(last.net) = i + 2
                 /\ last.net[i + 1].ev = "handle_missing_authorization"
                 /\ last.net[i + 2].ev = "POST"
                 /\ last.net[i + 2].url = last.net[i].url
                 /\ last.net[i + 2].json = last.net[i].json
            ELSE Len(last.net) = i

\* The affiliations argument as a list: none for a falsy argument, a str as
\* the list of that one str.
NormalizedAffiliations(a) ==
    IF Falsy(a) THEN <<>>
    ELSE IF a.kind = "list" THEN a.val ELSE <<S(a.val)>>
\* The affiliations a creator carries, none when it has no such key.
AffiliationsOf(creator) ==
    IF "affiliations" \in DOMAIN creator THEN creator["affiliations"] ELSE <<>>

\* C21: after create_dc_block(title, authors, affiliations) with N authors,
\* dc.creators has N entries in the order of the authors; when the normalized
\* affiliations list has a length other than N every creator carries the whole
\* list (and no affiliations key when it is empty); when it has N entries,
\* creator i carries entry i, a scalar entry as a one-element list.
C21_AffiliationBroadcast ==
    (last.op = "create_dc_block" /\ last.outcome = "returned") =>
        LET authors == AsList(last.args[2])
            norm == NormalizedAffiliations(last.args[3])
            N == Len(authors)
        IN  /\ Len(dc["creators"]) = N
            /\ \A i \in 1..N :
                 LET creator == dc["creators"][i]
                     name == HumanName(authors[i])
                 IN  /\ creator["givenName"] = JoinStrip(name.first, name.middle)
                     /\ creator["familyName"] = JoinStrip(name.last, name.suffix)
                     /\ IF Len(norm) # N
                        THEN /\ AffiliationsOf(creator) = norm
                             /\ "affiliations" \in DOMAIN creator <=> norm # <<>>
                        ELSE AffiliationsOf(creator) =
                                (IF norm[i].kind = "list" THEN norm[i].val ELSE <<norm[i]>>)
C21_Witness ==
    /\ last.op = "create_dc_block" /\ last.outcome = "returned"
    /\ last.args[2] = L(<<"Smith, John", "Jane Q Doe">>)
    /\ last.args[3] = L(<<S("NIST"), L(<<S("NIST"), S("UChicago")>>)>>)
    /\ dc["creators"][1]["affiliations"] = <<S("NIST")>>
    /\ dc["creators"][2]["affiliations"] = <<S("NIST"), S("UChicago")>>

IsUpload == last.op = "upload_to_endpoint"
Puts == {i \in DOMAIN last.net : last.net[i].ev = "PUT"}
\* The files of a walk in walk order, each with the directory it is in.
RECURSIVE WalkFiles(_)
WalkFiles(walk) ==
    IF walk = <<>> THEN <<>>
    ELSE [j \in DOMAIN walk[1].files |-> walk[1].subpath \o <<walk[1].files[j]>>]
         \o WalkFiles(Tail(walk))
\* Request i failed: a PUT answered by anything but 200, a call of the
\* transfer client answered by an error status.
FailedRequest(i) ==
    IF last.net[i].ev = "PUT" THEN last.net[i].status # 200 ELSE last.net[i].status >= 400
\* The k-th PUT of the call (k counted from 1).
NthPut(k) == CHOOSE i \in Puts : Cardinality({j \in Puts : j <= i}) = k

\* C22: upload_to_endpoint on a directory sends its PUTs in the order of the
\* walk, each into a remote directory created (successfully) earlier in the
\* same call; a PUT answered by a status other than 200, or a directory
\* creation that fails, is the last request of the call: the call raises,
\* returns no link, and sends nothing after it, neither a further PUT or mkdir
\* nor a request undoing an earlier upload.  A call that returns has uploaded
\* every file of the walk.
C22_SequentialAbort ==
    (IsUpload /\ last.args.local_data_path.kind = "dir" /\ last.net # <<>>) =>
        LET files == WalkFiles(last.args.local_data_path.walk)
            dest == Tail(last.net[1].target)
        IN  /\ Cardinality(Puts) <= Len(files)
            /\ \A k \in 1..Cardinality(Puts) :
                  last.net[NthPut(k)].target = <<HttpsServer, "tmp">> \o dest \o files[k]
            /\ \A i \in Puts :
                  \E j \in 1..(i - 1) :
                     /\ last.net[j].ev = "operation_mkdir"
                     /\ last.net[j].status < 400
                     /\ Tail(last.net[j].target) =
                            SubSeq(last.net[i].target, 3, Len(last.net[i].target) - 1)
            /\ \A i \in DOMAIN last.net :
                  /\ last.net[i].ev \in {"operation_mkdir", "get_endpoint", "PUT"}
                  /\ FailedRequest(i) =>
                        /\ i = Len(last.net)
                        /\ last.outcome = "raised"
                        /\ last.error = IF last.net[i].ev = "get_endpoint"
                                        THEN "TransferAPIError" ELSE "IOError"
                        /\ Len(last.result) = 0
            /\ last.outcome = "returned" => Cardinality(Puts) = Len(files)
C22_Witness ==
    /\ IsUpload /\ last.args.local_data_path.kind = "dir"
    /\ Len(last.args.local_data_path.walk) = 3
    /\ Len(last.net) = 5
    /\ last.net[3].ev = "PUT" /\ last.net[3].status = 200
    /\ last.net[5].ev = "PUT" /\ last.net[5].status = 201
    /\ last.outcome = "raised" /\ Len(last.result) = 0

\* C23: whenever the client holds a source_id, some submit_dataset call since
\* construction or the last reset ended with a response of status below 300
\* and a parseable body, and the stored source_id is the identifier the latest
\* such response carried.
C23_IdentifierInvariant ==
    source_id # None => (granted # None /\ source_id = granted)
C23_Witness ==
    /\ IsSubmit /\ last.stage = "sent"
    /\ last.pre.source_id = "ds_v1.1"
    /\ source_id = "ds_v1.2" /\ granted = "ds_v1.2"

\* The client is Sent when it holds an identifier, Fresh when it holds none.
Sent == Truthy(source_id)
WasSent == Truthy(last.pre.source_id)
\* The already-submitted guard let the call through.
PassedGuard == IsSubmit /\ last.stage # "guard"

\* C24 (as claimed): on a Sent client submit_dataset(update=True) from the
\* builder passes the guard and, unless it resets, leaves the client Sent;
\* reset_submission, and every submit_dataset(reset=True) that reached the
\* network, leave the client Fresh; on a Fresh client submit_dataset
\* (update=False) from the builder passes the guard.
C24_Lifecycle ==
    /\ (IsSubmit /\ FromBuilder /\ last.args.update /\ WasSent)
          => /\ PassedGuard
             /\ ~(last.args.reset /\ last.stage = "sent") => Sent
    /\ last.op = "reset_submission" => ~Sent
    /\ (IsSubmit /\ last.args.reset /\ last.stage = "sent") => ~Sent
    /\ (IsSubmit /\ FromBuilder /\ ~last.args.update /\ ~WasSent) => PassedGuard

\* get_submission() carries key k exactly when `stored` holds, and then with
\* the value v.
CarriesIff(k, stored, v) ==
    /\ k \in DOMAIN get_submission <=> stored
    /\ k \in DOMAIN get_submission => get_submission[k] = v

\* C25: get_submission() always carries dc, data_sources, test and update
\* with the stored values, and carries each of mdf, mrr, custom, projects,
\* data_destinations, external_uri, index, extraction_config, services, tags,
\* curation, no_extract, dataset_acl and incremental_update exactly when the
\* stored value is non-empty or true, with that value; on a client just
\* constructed it is {dc: {}, data_sources: [], test: the constructor's test,
\* update: False}.
C25_EnvelopeShape ==
    /\ CarriesIff("dc", TRUE, dc)
    /\ CarriesIff("data_sources", TRUE, data_sources)
    /\ CarriesIff("test", TRUE, test)
    /\ CarriesIff("update", TRUE, update)
    /\ CarriesIff("mdf", mdf # <<>>, mdf)
    /\ CarriesIff("mrr", mrr # <<>>, mrr)
    /\ CarriesIff("custom", custom # <<>>, custom)
    /\ CarriesIff("projects", projects # <<>>, projects)
    /\ CarriesIff("data_destinations", data_destinations # <<>>, data_destinations)
    /\ CarriesIff("external_uri", external_uri \notin {None, ""}, external_uri)
    /\ CarriesIff("index", index # <<>>, index)
    /\ CarriesIff("extraction_config", extraction_config # <<>>, extraction_config)
    /\ CarriesIff("services", services # <<>>, services)
    /\ CarriesIff("tags", tags # <<>>, tags)
    /\ CarriesIff("curation", curation, curation)
    /\ CarriesIff("no_extract", no_extract, no_extract)
    /\ CarriesIff("dataset_acl", dataset_acl # <<>>, dataset_acl)
    /\ CarriesIff("incremental_update", incremental_update \notin {None, PyFalse, ""},
                  incremental_update)
    /\ last.op = "__init__" =>
          /\ DOMAIN get_submission = {"dc", "data_sources", "test", "update"}
          /\ get_submission["dc"] = <<>> /\ get_submission["data_sources"] = <<>>
          /\ get_submission["update"] = FALSE
C25_Witness ==
    /\ test /\ update /\ curation /\ external_uri = None /\ mrr = <<>>
    /\ DOMAIN get_submission = {"dc", "data_sources", "test", "update", "curation"}
    /\ get_submission["update"] /\ get_submission["curation"]

\* C26: submit_dataset called with a non-empty explicit submission is never
\* stopped by the already-submitted check, whatever the stored source_id and
\* the update argument: it goes on to the check of required data and the JSON
\* validation, and an envelope that passes both is POSTed; every POST of the
\* call carries the submission passed in; the stored update flag is as before.
C26_ExplicitEnvelopeBypassesGuard ==
    (IsSubmit /\ ~FromBuilder) =>
        /\ last.stage \in {"required", "json", "sent"}
        /\ (RequiredData(last.args.submission) = "ok" /\ ValidateJson(last.args.submission))
              => (last.stage = "sent" /\ Posts # {})
        /\ \A i \in Posts : last.net[i].json = last.args.submission
        /\ update = last.pre.update
C26_Witness ==
    /\ IsSubmit /\ ~FromBuilder /\ ~last.args.update
    /\ last.pre.source_id = "ds_v1.1" /\ last.pre.update
    /\ last.stage = "sent" /\ Posts # {} /\ update
    /\ last.net[1].json = last.args.submission
    /\ last.args.submission # Envelope(FALSE)

\* The links a submission carries: those under mdf.links, then those under
\* the top-level links key.
LinksCarried(env) ==
    (IF "mdf" \in DOMAIN env /\ "links" \in DOMAIN env["mdf"] THEN env["mdf"]["links"]
     ELSE <<>>)
    \o (IF "links" \in DOMAIN env THEN env["links"] ELSE <<>>)
\* The submission as it was before the last call.
LinksCarriedBefore ==
    (IF "links" \in DOMAIN last.pre.mdf THEN last.pre.mdf["links"] ELSE <<>>)
    \o last.pre.links

\* C27 (as claimed): after clear_links(), whatever add_links stored before it,
\* get_submission() carries no links, neither under mdf.links nor under a
\* top-level links key.
C27_ClearLinksUndoesAddLinks ==
    last.op = "clear_links" => LinksCarried(get_submission) = <<>>

\* C28 (as claimed): add_links(L) appends L (a scalar as a one-element list)
\* to the links the submission carries, as add_organization does with the
\* organizations: two calls in a row leave the concatenation of their
\* arguments in call order.
C28_AddLinksCumulative ==
    last.op = "add_links" =>
        LinksCarried(get_submission) = LinksCarriedBefore \o Normalized(last.args[1])

\* C29: logout completes on every constructed client, built with an authorizer
\* or through the login flow: the submission state is reset (no stored
\* source_id, every field at its default), the authorizer is discarded, and
\* the call returns the "Logged out" message without raising.
C29_LogoutCompletes ==
    last.op = "logout" =>
        /\ last.outcome = "returned"
        /\ last.result = LoggedOut
        /\ source_id = None
        /\ fields = <<<<>>, <<>>, <<>>, <<>>, <<>>, <<>>, FALSE, FALSE, PyFalse,
                      <<>>, None, <<>>, <<>>, <<>>, <<>>, <<>>, <<>>>>
        /\ authorizer = None


\* The calls the claim names: the four queries, the two curation verdicts, and
\* a metadata update made from the stored fields with reset=False.
Queries == {"check_status", "check_all_submissions", "get_curation_task",
            "get_available_curation_tasks"}
ReadOnlyCall ==
    \/ last.op \in Queries
    \/ /\ last.op = "_complete_curation_task"
       /\ last.via \in {"accept_curation_submission", "reject_curation_submission"}
    \/ /\ last.op = "submit_dataset_metadata_update"
       /\ ~last.args.reset
       /\ ~NonEmpty(last.args.metadata_update)
\* check_status called with no source_id on a client that stores none.
NothingToCheck ==
    /\ last.op = "check_status"
    /\ ~Truthy(last.args.source_id)
    /\ ~Truthy(last.pre.source_id)

\* C30: the queries, the curation verdicts and a metadata update with
\* reset=False made from the stored fields leave every submission field, the
\* update and test flags, the service endpoint and the stored source_id as
\* they were, whatever the responses; check_status with no source_id
\* argument and none stored sends no request.
C30_QueriesAreReadOnly ==
    /\ ReadOnlyCall =>
          /\ FieldsAsBefore
          /\ update = last.pre.update
          /\ test = last.pre.test
          /\ service_loc = last.pre.service_loc
          /\ source_id = last.pre.source_id
    /\ NothingToCheck => last.net = <<>>
\* A status check that sent a request, after a refused first attempt, from a
\* client that holds a dc block and a stored source_id.
C30_Witness ==
    /\ last.op = "check_status"
    /\ Len(last.net) = 3
    /\ NonEmpty(dc)
    /\ Truthy(source_id)

====
